---- MODULE Spec2Model ----
(***************************************************************************)
(* Spiral Gated Chat, phase 0.4: the per-turn control loop of the POST     *)
(* handler (probe -> state -> main), the META-cap governor, the            *)
(* exploration pulse and the salience fragment bank.                       *)
(*                                                                         *)
(* Numbers.  The code computes in IEEE doubles; the model computes in      *)
(* fixed point.  A state, a salience, a z-score, a mean and every other    *)
(* real is held in thousandths (0.3 is 300, 1.2 is 1200); a variance is    *)
(* held in millionths.  Every product is rounded to the nearest unit, half *)
(* up, like Math.round.  Math.exp and Math.pow are tabulated (SigmoidTable,*)
(* PowTable) and interpolated linearly between the table's points.         *)
(*                                                                         *)
(* Text.  A JavaScript string is the sequence of its characters (Chars of  *)
(* a literal); Null stands for null.  The three-character separator of     *)
(* fragmentText, whose arrow is one UTF-16 unit, is written " > " so that  *)
(* lengths agree.                                                          *)
(*                                                                         *)
(* Completion service.  Every call of openai.responses.create is a suspend *)
(* point: the handler's code between two calls is one action.  What the    *)
(* service answers is an input of the action that resumes the handler,     *)
(* given as what extractFirstTextAndLogprobs, parseProbeFields,            *)
(* meanSurprisal and approxEntropy make of the answer.                     *)
(***************************************************************************)
EXTENDS Integers, Sequences, FiniteSets, TLC

VARIABLES sessions, proc

vars == <<sessions, proc>>

\* ------------------------------------------------------------------------
\* Representation

\* 1.0 in thousandths.
ONE == 10 * 100

\* The characters of a string literal, one per element.
Chars(str) == [i \in 1..Len(str) |-> SubSeq(str, i, i)]

\* JavaScript null for a string, and for a number (every nullable number of
\* the handler is non-negative when present).
Null == <<"<null>">>
NoNum == 0 - 1

Max(a, b) == IF a >= b THEN a ELSE b
Min(a, b) == IF a <= b THEN a ELSE b

\* a / b rounded to the nearest integer, half up (b > 0).
RDiv(a, b) == (2 * a + b) \div (2 * b)

\* a * b of two fixed-point numbers, in thousandths.
Mul(a, b) == RDiv(a * b, ONE)

RECURSIVE ISqrtIn(_, _, _)
ISqrtIn(x, lo, hi) ==
    IF lo >= hi THEN lo
    ELSE LET mid == (lo + hi + 1) \div 2
         IN  IF mid * mid <= x THEN ISqrtIn(x, mid, hi) ELSE ISqrtIn(x, lo, mid - 1)

\* floor(sqrt(x)) for 0 <= x < 2^31.
ISqrt(x) == ISqrtIn(x, 0, 46340)

RECURSIVE SumSeq(_)
SumSeq(s) == IF s = <<>> THEN 0 ELSE Head(s) + SumSeq(Tail(s))

RECURSIVE SumSq(_)
SumSq(s) == IF s = <<>> THEN 0 ELSE Head(s) * Head(s) + SumSq(Tail(s))

\* xs.slice(-n)
LastN(s, n) == IF Len(s) <= n THEN s ELSE SubSeq(s, Len(s) - n + 1, Len(s))

\* xs.slice(0, n)
FirstN(s, n) == IF Len(s) <= n THEN s ELSE SubSeq(s, 1, n)

Range(s) == {s[i] : i \in 1..Len(s)}

\* a table over [0, (Len(tab)-1)*step], linear between its points
Interp(tab, step, x) ==
    LET i  == Min(x \div step, Len(tab) - 2)
        fr == x - step * i
    IN  tab[i + 1] + RDiv((tab[i + 2] - tab[i + 1]) * fr, step)

\* 1000 * x^gamma at x = 0, 0.05, ..., 1 for the four exponents the code uses
PowTable(gamma) ==
    CASE gamma = 900 ->
           <<0, 67, 126, 181, 235, 287, 338, 389, 438, 487, 536, 584, 631, 679,
             725, 772, 818, 864, 910, 955, 1000>>
      [] gamma = 1200 ->
           <<0, 27, 63, 103, 145, 189, 236, 284, 333, 384, 435, 488, 542, 596,
             652, 708, 765, 823, 881, 940, 1000>>
      [] gamma = 1250 ->
           <<0, 24, 56, 93, 134, 177, 222, 269, 318, 369, 420, 474, 528, 584,
             640, 698, 757, 816, 877, 938, 1000>>
      [] gamma = 1400 ->
           <<0, 15, 40, 70, 105, 144, 185, 230, 277, 327, 379, 433, 489, 547,
             607, 668, 732, 797, 863, 931, 1000>>

\* 1000 / (1 + exp(-x)) at x = -8, -7.75, ..., 8
SigmoidTable ==
    <<0, 0, 1, 1, 1, 1, 2, 2, 2, 3, 4, 5, 7, 9, 11, 14, 18, 23, 29, 37, 47, 60,
      76, 95, 119, 148, 182, 223, 269, 321, 378, 438, 500, 562, 622, 679, 731,
      777, 818, 852, 881, 905, 924, 940, 953, 963, 971, 977, 982, 986, 989, 991,
      993, 995, 996, 997, 998, 998, 998, 999, 999, 999, 999, 1000, 1000>>

\* ------------------------------------------------------------------------
\* lib/gating.ts

RISK == Chars("RISK")
META == Chars("META")

DIMS == {Chars(d) : d \in {"RISK", "NOVELTY", "GOAL", "UNCERTAINTY", "OPPORTUNITY", "META"}}

createInitialGateState ==
    [ S |-> [mean |-> 2000, var |-> 1000000],
      H |-> [mean |-> 1000, var |-> 1000000],
      last_state |-> 300,
      meta_cap_stage |-> 0,
      meta_cap_last_change_turn |-> 0 - 999,
      last_dims |-> <<>>,
      last_focus |-> <<>>,
      last_states |-> <<>>,
      last_pulse_turn |-> 0 - 999 ]

\* (x - stats.mean) / Math.sqrt(stats.var + 1e-8): the root of a variance in
\* millionths is a deviation in thousandths; the 1e-8 keeps it above zero.
zScore(stats, x) == RDiv((x - stats.mean) * ONE, Max(1, ISqrt(stats.var)))

sigmoid(x) ==
    IF x <= 0 - 8000 THEN 0
    ELSE IF x >= 8000 THEN ONE
    ELSE Interp(SigmoidTable, 250, x + 8000)

clamp(a, b, x) == Max(a, Min(b, x))

clamp01(x) == clamp(0, ONE, x)

lerp(a, b, t) == a + RDiv((b - a) * t, ONE)

HystUp == 620
HystDown == 480
Inertia == 600

\* Two variants of hysteresisUpdate that the properties of the state resolver
\* must tell from it: the blend with its weights exchanged, and the update
\* without the dead band.
hysteresisUpdateSwapped(prev, raw, up, down, inertia) ==
    LET target == IF raw >= up \/ raw <= down THEN raw ELSE prev
        next   == RDiv((ONE - inertia) * prev + inertia * target, ONE)
    IN  clamp01(next)

hysteresisUpdateNoBand(prev, raw, up, down, inertia) ==
    clamp01(RDiv(inertia * prev + (ONE - inertia) * raw, ONE))

\* A variant of hysteresisUpdate whose band includes its two ends.
hysteresisUpdateClosedBand(prev, raw, up, down, inertia) ==
    LET target == IF raw > up \/ raw < down THEN raw ELSE prev
        next   == RDiv(inertia * prev + (ONE - inertia) * target, ONE)
    IN  clamp01(next)

hysteresisUpdate(prev, raw, up, down, inertia) ==
    LET target == IF raw >= up \/ raw <= down THEN raw ELSE prev
        next   == RDiv(inertia * prev + (ONE - inertia) * target, ONE)
    IN  clamp01(next)

Truthy(s) == s # Null /\ s # <<>>

RECURSIVE ShiftTo(_, _)
ShiftTo(s, maxLen) == IF Len(s) > maxLen THEN ShiftTo(Tail(s), maxLen) ELSE s

StagnationMaxLen == 12

\* A variant of updateStagnationBuffers that never evicts.
updateStagnationBuffersUnbounded(gs, dim, focus, state, maxLen) ==
    [gs EXCEPT
       !.last_dims   = IF Truthy(dim) THEN Append(@, dim) ELSE @,
       !.last_focus  = IF Truthy(focus) THEN Append(@, focus) ELSE @,
       !.last_states = Append(@, state)]

\* A variant of updateStagnationBuffers that appends the dimension and the
\* focus whether present or not.
updateStagnationBuffersAlways(gs, dim, focus, state, maxLen) ==
    [gs EXCEPT
       !.last_dims   = ShiftTo(Append(@, dim), maxLen),
       !.last_focus  = ShiftTo(Append(@, focus), maxLen),
       !.last_states = ShiftTo(Append(@, state), maxLen)]

updateStagnationBuffers(gs, dim, focus, state, maxLen) ==
    [gs EXCEPT
       !.last_dims   = ShiftTo(IF Truthy(dim) THEN Append(@, dim) ELSE @, maxLen),
       !.last_focus  = ShiftTo(IF Truthy(focus) THEN Append(@, focus) ELSE @, maxLen),
       !.last_states = ShiftTo(Append(@, state), maxLen)]

\* The sample variance in millionths, rounded down (so that "variance < v"
\* is decided exactly for a whole v): the sum of squared deviations from the
\* mean is (n * sum(x^2) - sum(x)^2) / n.
variance(xs) ==
    LET n == Len(xs)
    IN  IF n <= 1 THEN 0
        ELSE (n * SumSq(xs) - SumSeq(xs) * SumSeq(xs)) \div (n * (n - 1))

lowDiversity(xs, uniqMax) == Cardinality(Range(xs)) <= uniqMax

StagnationWindow == 8
FlatVariance == 2000

\* A variant of shouldExplorationPulse that allows a single focus.
shouldExplorationPulseOneFocus(gs) ==
    IF Len(gs.last_states) < StagnationWindow THEN FALSE
    ELSE IF Len(gs.last_dims) < StagnationWindow THEN FALSE
    ELSE IF Len(gs.last_focus) < StagnationWindow THEN FALSE
    ELSE /\ variance(LastN(gs.last_states, StagnationWindow)) < FlatVariance
         /\ lowDiversity(LastN(gs.last_dims, StagnationWindow), 1)
         /\ lowDiversity(LastN(gs.last_focus, StagnationWindow), 1)

shouldExplorationPulse(gs) ==
    IF Len(gs.last_states) < StagnationWindow THEN FALSE
    ELSE IF Len(gs.last_dims) < StagnationWindow THEN FALSE
    ELSE IF Len(gs.last_focus) < StagnationWindow THEN FALSE
    ELSE /\ variance(LastN(gs.last_states, StagnationWindow)) < FlatVariance
         /\ lowDiversity(LastN(gs.last_dims, StagnationWindow), 1)
         /\ lowDiversity(LastN(gs.last_focus, StagnationWindow), 2)

\* ------------------------------------------------------------------------
\* lib/fragments (the part of ChatApp.tsx after the component)

UpperChars == Chars("ABCDEFGHIJKLMNOPQRSTUVWXYZ")
LowerChars == Chars("abcdefghijklmnopqrstuvwxyz")

IsWs(c) == c \in {" ", "\t", "\n", "\r"}

CaseIndex(alphabet, c) ==
    IF \E i \in 1..26 : alphabet[i] = c
    THEN CHOOSE i \in 1..26 : alphabet[i] = c
    ELSE 0

MapCase(s, from, to) ==
    [i \in 1..Len(s) |->
       LET k == CaseIndex(from, s[i]) IN IF k = 0 THEN s[i] ELSE to[k]]

toUpperCase(s) == MapCase(s, LowerChars, UpperChars)
toLowerCase(s) == MapCase(s, UpperChars, LowerChars)

trim(s) ==
    LET ink == {i \in 1..Len(s) : ~IsWs(s[i])}
        lo  == CHOOSE i \in ink : \A j \in ink : i <= j
        hi  == CHOOSE i \in ink : \A j \in ink : j <= i
    IN  IF ink = {} THEN <<>> ELSE SubSeq(s, lo, hi)

\* s.replace(/\s+/g, " "): every run of white space becomes one space
CollapseWs(s) ==
    LET marked == [i \in 1..Len(s) |->
                     [ c |-> IF IsWs(s[i]) THEN " " ELSE s[i],
                       drop |-> IsWs(s[i]) /\ i > 1 /\ IsWs(s[i - 1]) ]]
        Kept(m) == ~m.drop
        kept == SelectSeq(marked, Kept)
    IN  [i \in 1..Len(kept) |-> kept[i].c]

\* x ?? ""
OrEmpty(s) == IF s = Null THEN <<>> ELSE s

\* makeFragmentId: "f_<turn>_<six hex digits of Math.random()>"; rnd is the draw.
makeFragmentId(turn, rnd) == <<turn, rnd>>

makeFragmentKey(dim, focus, next) ==
    LET d == toUpperCase(OrEmpty(dim))
        f == toLowerCase(trim(OrEmpty(focus)))
        n == toLowerCase(trim(OrEmpty(next)))
    IN  d \o <<"|">> \o f \o <<"|">> \o n

dimBonus(dim) ==
    LET d == toUpperCase(OrEmpty(dim))
    IN  CASE d = Chars("RISK") -> 220
          [] d = Chars("GOAL") -> 160
          [] d = Chars("NOVELTY") -> 120
          [] d = Chars("OPPORTUNITY") -> 100
          [] d = Chars("UNCERTAINTY") -> 80
          [] d = Chars("META") -> 40
          [] OTHER -> 0

powEase(x, gamma) == Interp(PowTable(gamma), 50, clamp01(x))

SalienceMax == 1200

salienceDecayFactor(state) == lerp(550, 930, powEase(state, 900))

decayFragments(frags, state) ==
    LET factor == salienceDecayFactor(state)
    IN  [i \in 1..Len(frags) |->
           [frags[i] EXCEPT !.salience = clamp(0, SalienceMax, Mul(@, factor))]]

TextMax == 160

fragmentText(dim_, focus_, next_) ==
    LET dim   == IF Truthy(dim_) THEN toUpperCase(dim_) ELSE Null
        focus == trim(CollapseWs(OrEmpty(focus_)))
        next  == trim(CollapseWs(OrEmpty(next_)))
        head  == IF dim # Null THEN <<"(">> \o dim \o Chars(") ") ELSE <<>>
        body  == IF focus # <<>> \/ next # <<>>
                 THEN focus \o (IF next # <<>> THEN Chars(" > ") \o next ELSE <<>>)
                 ELSE <<>>
        t     == trim(head \o body)
    IN  IF Len(t) > TextMax THEN SubSeq(t, 1, TextMax) ELSE t

\* frags.find((f) => f.key === key): the index of the first match, 0 for none
FindKey(frags, key) ==
    IF \E i \in 1..Len(frags) : frags[i].key = key
    THEN CHOOSE i \in 1..Len(frags) :
           /\ frags[i].key = key
           /\ \A j \in 1..(i - 1) : frags[j].key # key
    ELSE 0

MergeBonus == 80

\* A variant of upsertFragment that never merges.
upsertFragmentAlwaysPush(frags, incoming, turn, rnd) ==
    [ frags  |-> Append(frags,
                    [ id |-> makeFragmentId(turn, rnd), key |-> incoming.key,
                      turn |-> incoming.turn, dim |-> incoming.dim,
                      focus |-> incoming.focus, text |-> incoming.text,
                      salience |-> incoming.salience, last_used_turn |-> 0 - 999 ]),
      added  |-> TRUE,
      merged |-> FALSE,
      id     |-> makeFragmentId(turn, rnd) ]

\* A variant of upsertFragment whose merge replaces the salience by the
\* incoming one.
upsertFragmentReplaces(frags, incoming, turn, rnd) ==
    LET i == FindKey(frags, incoming.key)
    IN  IF i # 0
        THEN [ frags  |-> [frags EXCEPT ![i] =
                             [@ EXCEPT !.text = incoming.text,
                                       !.dim = incoming.dim,
                                       !.focus = incoming.focus,
                                       !.turn = incoming.turn,
                                       !.salience = incoming.salience]],
               added  |-> FALSE,
               merged |-> TRUE,
               id     |-> frags[i].id ]
        ELSE [ frags  |-> Append(frags,
                             [ id |-> makeFragmentId(turn, rnd),
                               key |-> incoming.key,
                               turn |-> incoming.turn,
                               dim |-> incoming.dim,
                               focus |-> incoming.focus,
                               text |-> incoming.text,
                               salience |-> incoming.salience,
                               last_used_turn |-> 0 - 999 ]),
               added  |-> TRUE,
               merged |-> FALSE,
               id     |-> makeFragmentId(turn, rnd) ]

\* incoming: [key, turn, dim, focus, text, salience]; the result is the bank
\* and what upsertFragment returns.
upsertFragment(frags, incoming, turn, rnd) ==
    LET i == FindKey(frags, incoming.key)
    IN  IF i # 0
        THEN [ frags  |-> [frags EXCEPT ![i] =
                             [@ EXCEPT !.text = incoming.text,
                                       !.dim = incoming.dim,
                                       !.focus = incoming.focus,
                                       !.turn = incoming.turn,
                                       !.salience = clamp(0, SalienceMax,
                                           Max(@, incoming.salience) + MergeBonus)]],
               added  |-> FALSE,
               merged |-> TRUE,
               id     |-> frags[i].id ]
        ELSE [ frags  |-> Append(frags,
                             [ id |-> makeFragmentId(turn, rnd),
                               key |-> incoming.key,
                               turn |-> incoming.turn,
                               dim |-> incoming.dim,
                               focus |-> incoming.focus,
                               text |-> incoming.text,
                               salience |-> incoming.salience,
                               last_used_turn |-> 0 - 999 ]),
               added  |-> TRUE,
               merged |-> FALSE,
               id     |-> makeFragmentId(turn, rnd) ]

\* x put into a sequence sorted by descending salience, after every element
\* that is not below it
InsertDesc(sorted, x) ==
    LET k == Cardinality({i \in 1..Len(sorted) : sorted[i].salience >= x.salience})
    IN  SubSeq(sorted, 1, k) \o <<x>> \o SubSeq(sorted, k + 1, Len(sorted))

\* [...xs].sort((a, b) => b.salience - a.salience): a stable sort
RECURSIVE SortDesc(_)
SortDesc(xs) ==
    IF xs = <<>> THEN <<>>
    ELSE InsertDesc(SortDesc(SubSeq(xs, 1, Len(xs) - 1)), xs[Len(xs)])

PruneSalience == 60
PruneAge == 8
MaxKeep == 40

\* A variant of pruneFragments that cuts to size without sorting first.
pruneFragmentsUnsorted(frags, turn, maxKeep) ==
    LET Keep(f) == ~(f.salience < PruneSalience /\ turn - f.turn > PruneAge)
    IN  FirstN(SelectSeq(frags, Keep), maxKeep)

pruneFragments(frags, turn, maxKeep) ==
    LET Keep(f) == ~(f.salience < PruneSalience /\ turn - f.turn > PruneAge)
        kept == SortDesc(SelectSeq(frags, Keep))
    IN  FirstN(kept, maxKeep)

pickTopFragments(frags, k) ==
    IF k <= 0 THEN <<>> ELSE FirstN(SortDesc(frags), k)

RehearseBonus == 50

\* A variant of rehearseFragments that adds its bonus without the clamp.
rehearseFragmentsUnclamped(frags, picked, turn) ==
    LET pickedIds == {picked[i].id : i \in 1..Len(picked)}
    IN  [i \in 1..Len(frags) |->
           IF frags[i].id \in pickedIds
           THEN [frags[i] EXCEPT !.last_used_turn = turn, !.salience = @ + RehearseBonus]
           ELSE frags[i]]

\* A variant of rehearseFragments that rehearses the whole bank when anything
\* was picked.
rehearseFragmentsAll(frags, picked, turn) ==
    [i \in 1..Len(frags) |->
       [frags[i] EXCEPT !.last_used_turn = turn,
                        !.salience = clamp(0, SalienceMax, @ + RehearseBonus)]]

rehearseFragments(frags, picked, turn) ==
    LET pickedIds == {picked[i].id : i \in 1..Len(picked)}
    IN  [i \in 1..Len(frags) |->
           IF frags[i].id \in pickedIds
           THEN [frags[i] EXCEPT !.last_used_turn = turn,
                                 !.salience = clamp(0, SalienceMax, @ + RehearseBonus)]
           ELSE frags[i]]

\* ------------------------------------------------------------------------
\* lib/sessionStore.ts: the session registry and the helpers of the handler

\* The session getSession creates for an id it has not seen.
NewSession(sessionId) ==
    [ id |-> sessionId,
      gate |-> createInitialGateState,
      memory |-> [ summary |-> <<>>, summary_updated_turn |-> 0 - 1,
                   attn_log |-> <<>>, fragments |-> <<>> ],
      history |-> <<>>,
      turn |-> 0 ]

\* A variant of getSession over a store that keeps one session for all ids.
getSessionShared(map, sessionId) ==
    IF DOMAIN map # {}
    THEN map[CHOOSE k \in DOMAIN map : TRUE]
    ELSE NewSession(sessionId)

\* A variant of getSession that makes a new session at every call.
getSessionAlwaysNew(map, sessionId) == NewSession(sessionId)

\* sessions is the Map: a function from the ids seen so far.
getSession(map, sessionId) ==
    IF sessionId \in DOMAIN map THEN map[sessionId] ELSE NewSession(sessionId)

\* s.replace(/\s+/g, " ").trim()
safeOneLine(s) == trim(CollapseWs(OrEmpty(s)))

smoothstep(edge0, edge1, x) ==
    LET t == clamp01(RDiv((x - edge0) * ONE, edge1 - edge0))
    IN  RDiv(t * t * (3 * ONE - 2 * t), ONE * ONE)

MetaCap0 == 550
MetaCap1 == 650

\* A variant of metaCapValue that never unlocks.
metaCapValueNeverUnlocked(stage) == IF stage = 0 THEN MetaCap0 ELSE MetaCap1

\* null (unlocked) is NoNum
metaCapValue(stage) ==
    IF stage = 0 THEN MetaCap0
    ELSE IF stage = 1 THEN MetaCap1
    ELSE NoNum

MetaWindow == 12

\* the share in thousandths, NoNum for null
recentMetaShare(gs, window) ==
    LET dims == LastN(gs.last_dims, window)
        meta == Cardinality({i \in 1..Len(dims) : dims[i] = META})
    IN  IF Len(dims) < window THEN NoNum ELSE RDiv(meta * ONE, Len(dims))

Stage0MinInterval == 12
Stage1MinInterval == 18
Stage0MaxShare == 250
Stage1MaxShare == 170

\* A variant of maybeRelaxMetaCapStage that leaves stage 0 whatever the META
\* share is.
maybeRelaxMetaCapStageAnyShare(gs, turn) ==
    LET share == recentMetaShare(gs, MetaWindow)
        minInterval == IF gs.meta_cap_stage = 1 THEN Stage1MinInterval ELSE Stage0MinInterval
    IN  IF share = NoNum THEN [gs |-> gs, changed |-> FALSE, metaShare |-> NoNum]
        ELSE IF turn - gs.meta_cap_last_change_turn < minInterval
             THEN [gs |-> gs, changed |-> FALSE, metaShare |-> share]
        ELSE IF gs.meta_cap_stage = 0
             THEN [gs |-> [gs EXCEPT !.meta_cap_stage = 1, !.meta_cap_last_change_turn = turn],
                   changed |-> TRUE, metaShare |-> share]
        ELSE IF gs.meta_cap_stage = 1 /\ share <= Stage1MaxShare
             THEN [gs |-> [gs EXCEPT !.meta_cap_stage = 2, !.meta_cap_last_change_turn = turn],
                   changed |-> TRUE, metaShare |-> share]
        ELSE [gs |-> gs, changed |-> FALSE, metaShare |-> share]

\* A variant of maybeRelaxMetaCapStage without the minimum interval.
maybeRelaxMetaCapStageNoInterval(gs, turn) ==
    LET share == recentMetaShare(gs, MetaWindow)
    IN  IF share = NoNum THEN [gs |-> gs, changed |-> FALSE, metaShare |-> NoNum]
        ELSE IF gs.meta_cap_stage = 0 /\ share <= Stage0MaxShare
             THEN [gs |-> [gs EXCEPT !.meta_cap_stage = 1, !.meta_cap_last_change_turn = turn],
                   changed |-> TRUE, metaShare |-> share]
        ELSE IF gs.meta_cap_stage = 1 /\ share <= Stage1MaxShare
             THEN [gs |-> [gs EXCEPT !.meta_cap_stage = 2, !.meta_cap_last_change_turn = turn],
                   changed |-> TRUE, metaShare |-> share]
        ELSE [gs |-> gs, changed |-> FALSE, metaShare |-> share]

\* the gate state it leaves, and what it returns
maybeRelaxMetaCapStage(gs, turn) ==
    LET share == recentMetaShare(gs, MetaWindow)
        minInterval == IF gs.meta_cap_stage = 1 THEN Stage1MinInterval ELSE Stage0MinInterval
    IN  IF share = NoNum THEN [gs |-> gs, changed |-> FALSE, metaShare |-> NoNum]
        ELSE IF turn - gs.meta_cap_last_change_turn < minInterval
             THEN [gs |-> gs, changed |-> FALSE, metaShare |-> share]
        ELSE IF gs.meta_cap_stage = 0 /\ share <= Stage0MaxShare
             THEN [gs |-> [gs EXCEPT !.meta_cap_stage = 1, !.meta_cap_last_change_turn = turn],
                   changed |-> TRUE, metaShare |-> share]
        ELSE IF gs.meta_cap_stage = 1 /\ share <= Stage1MaxShare
             THEN [gs |-> [gs EXCEPT !.meta_cap_stage = 2, !.meta_cap_last_change_turn = turn],
                   changed |-> TRUE, metaShare |-> share]
        ELSE [gs |-> gs, changed |-> FALSE, metaShare |-> share]

RiskBoostLow == 220
RiskBoostHigh == 80

\* A variant of applyDimWeight that puts no cap on a META turn.
applyDimWeightUncapped(rawState, dim, gs) ==
    LET boost == lerp(RiskBoostLow, RiskBoostHigh, clamp01(rawState))
        s1    == IF dim = RISK THEN clamp01(rawState + boost) ELSE rawState
        cap   == IF dim = META THEN metaCapValue(gs.meta_cap_stage) ELSE NoNum
    IN  [ raw |-> s1,
          metaCap |-> cap,
          notes |-> IF dim = RISK THEN {"risk boost"} ELSE {} ]

applyDimWeight(rawState, dim, gs) ==
    LET boost == lerp(RiskBoostLow, RiskBoostHigh, clamp01(rawState))
        s1    == IF dim = RISK THEN clamp01(rawState + boost) ELSE rawState
        cap   == IF dim = META THEN metaCapValue(gs.meta_cap_stage) ELSE NoNum
        s2    == IF cap # NoNum THEN Min(s1, cap) ELSE s1
    IN  [ raw |-> s2,
          metaCap |-> cap,
          notes |-> (IF dim = RISK THEN {"risk boost"} ELSE {})
                    \cup (IF dim = META /\ cap # NoNum /\ s1 > cap THEN {"meta cap"} ELSE {})
                    \cup (IF dim = META /\ cap = NoNum THEN {"meta cap unlocked"} ELSE {}) ]

\* parseCandidates after splitCandidateBlocks: a block is given by the number
\* of its non-empty lines and the fields parseProbeFields finds in its first four
parseCandidates(blocks) ==
    LET Ok(b) == b.lines >= 2 /\ (Truthy(b.dim) \/ Truthy(b.focus))
    IN  FirstN(SelectSeq(blocks, Ok), 3)

\* updateOneLineSummary, from the text of the service's answer
SummaryMax == 160

oneLineSummary(text) ==
    LET one == safeOneLine(text)
    IN  IF one = <<>> THEN Null
        ELSE IF Len(one) > SummaryMax THEN SubSeq(one, 1, SummaryMax) ELSE one

\* ------------------------------------------------------------------------
\* lib/sessionStore.ts: POST, one request per process

\* Where a request stands.  "probe", "explore", "verify", "main" and "summary"
\* are the awaited completion calls; "done" is the 200 answer, "failed" the
\* 500 of the catch block, "rejected" the 400.
Resting == {"idle", "done", "failed", "rejected"}
Suspended == {"probe", "explore", "verify", "main", "summary"}

NoProbe == [dim |-> Null, focus |-> Null, next |-> Null]

\* The locals of a request.  pre is the session as getSession returned it (kept
\* for the properties, the code holds no such copy); prev and capStage are
\* sess.gate.last_state and meta_cap_stage as line 450-453 read them; requests
\* and thrown are the completion calls issued and those that threw; pickReply is
\* what parsePick made of the arbitration reply, summaryReply the text of the
\* answer to the summary request.
IdleLocals ==
    [ pc |-> "idle", status |-> 0, sid |-> Null, userText |-> <<>>, turn |-> 0,
      pre |-> NewSession(Null),
      original |-> NoProbe, effective |-> NoProbe,
      S |-> NoNum, H |-> NoNum, zS |-> NoNum, zH |-> NoNum, scored |-> FALSE, score |-> 0,
      rawStateFromScore |-> 0,
      stagnation |-> FALSE, repeatingDim |-> Null, cands |-> <<>>,
      triggered |-> FALSE, picked |-> NoNum, pickReply |-> NoNum,
      resolved |-> FALSE, prev |-> 0, capStage |-> 0, weighted |-> 0, metaCap |-> NoNum,
      state |-> 0, metaChanged |-> FALSE,
      fragAdd |-> "none", injected |-> {},
      ctx_keep_msgs |-> 0, summary_chars |-> 0, attn_items |-> 0, frag_items |-> 0,
      summary_update_interval |-> 0, summary_update_max_tokens |-> 0,
      max_output_tokens |-> 0, temperature |-> 0,
      requests |-> <<>>, thrown |-> {}, notes |-> {}, assistantText |-> Null,
      summaryReply |-> Null ]

Eta == 60

\* lines 333-349: the baseline update of one signal, written out in the handler
baselineUpdate(stats, x) ==
    LET mean == RDiv((ONE - Eta) * stats.mean + Eta * x, ONE)
        d    == x - mean
        a    == (ONE - Eta) \div 20
        b    == Eta \div 20
        c    == ONE \div 20
        dd   == d * d
    IN  [ mean |-> mean,
          \* ((1 - eta) var + eta d^2) / 1: the three factors are reduced by 20
          \* and the quotient is taken before the product, so that every
          \* intermediate value stays within 32 bits
          var  |-> a * (stats.var \div c) + b * (dd \div c)
                   + RDiv(a * (stats.var % c) + b * (dd % c), c) ]

ScoreA == 700
ScoreB == 300
Tau == 1200

\* A variant of probeMetrics that takes the z-scores from the baselines as they
\* are after the update.
probeMetricsScoresAfterUpdate(gate, S, H) ==
    LET zS == IF S # NoNum THEN zScore(baselineUpdate(gate.S, S), S) ELSE 0
        zH == IF H # NoNum THEN zScore(baselineUpdate(gate.H, H), H) ELSE 0
        scored == S # NoNum \/ H # NoNum
        score == RDiv(ScoreA * zS + ScoreB * zH, ONE)
    IN  [ gate |-> [gate EXCEPT
                      !.S = IF S # NoNum THEN baselineUpdate(@, S) ELSE @,
                      !.H = IF H # NoNum THEN baselineUpdate(@, H) ELSE @],
          zS |-> zS, zH |-> zH, scored |-> scored, score |-> score,
          rawStateFromScore |-> IF scored THEN sigmoid(RDiv(score * ONE, Tau))
                                ELSE gate.last_state,
          notes |-> (IF S = NoNum THEN {"surprisal unavailable"} ELSE {})
                    \cup (IF H = NoNum THEN {"entropy unavailable"} ELSE {}) ]

\* lines 314-359: the metrics S and H of the probe (NoNum: unavailable), the
\* z-scores, the baselines and the raw state
probeMetrics(gate, S, H) ==
    LET zS == IF S # NoNum THEN zScore(gate.S, S) ELSE 0
        zH == IF H # NoNum THEN zScore(gate.H, H) ELSE 0
        scored == S # NoNum \/ H # NoNum
        score == RDiv(ScoreA * zS + ScoreB * zH, ONE)
    IN  [ gate |-> [gate EXCEPT
                      !.S = IF S # NoNum THEN baselineUpdate(@, S) ELSE @,
                      !.H = IF H # NoNum THEN baselineUpdate(@, H) ELSE @],
          zS |-> zS, zH |-> zH, scored |-> scored, score |-> score,
          rawStateFromScore |-> IF scored THEN sigmoid(RDiv(score * ONE, Tau))
                                ELSE gate.last_state,
          notes |-> (IF S = NoNum THEN {"surprisal unavailable"} ELSE {})
                    \cup (IF H = NoNum THEN {"entropy unavailable"} ELSE {}) ]

PulseCooldown == 6
BoredomMax == 600

\* A variant of pulseWanted without the cooldown.
pulseWantedNoCooldown(gate, turn) ==
    /\ shouldExplorationPulse(gate)
    /\ LastN(gate.last_dims, 1) # <<RISK>>
    /\ gate.last_state < BoredomMax

\* lines 364-380: whether the exploration request is issued
pulseWanted(gate, turn) ==
    LET repeatingDim == IF Len(gate.last_dims) > 0 THEN gate.last_dims[Len(gate.last_dims)] ELSE Null
    IN  /\ shouldExplorationPulse(gate)
        /\ turn - gate.last_pulse_turn >= PulseCooldown
        /\ repeatingDim # RISK
        /\ gate.last_state < BoredomMax

AttnLogMax == 30

\* lines 471-480
attnLogPush(log, turn, probe) ==
    IF Truthy(probe.dim) /\ Truthy(probe.focus)
    THEN ShiftTo(Append(log, [turn |-> turn, dim |-> probe.dim, focus |-> probe.focus,
                              next |-> probe.next]), AttnLogMax)
    ELSE log

\* line 504
initSalience(state, dim) == clamp(0, SalienceMax, 250 + Mul(550, state) + dimBonus(dim))

\* A variant of fragmentPhase that decays the bank after the upsert.
fragmentPhaseDecayLast(frags, probe, state, turn, rnd) ==
    LET baseFragText == fragmentText(probe.dim, probe.focus, probe.next)
        res == upsertFragment(frags,
                   [ key |-> makeFragmentKey(probe.dim, probe.focus, probe.next),
                     turn |-> turn, dim |-> probe.dim, focus |-> probe.focus,
                     text |-> baseFragText, salience |-> initSalience(state, probe.dim) ],
                   turn, rnd)
    IN  IF baseFragText # <<>>
        THEN [ frags |-> pruneFragments(decayFragments(res.frags, state), turn, MaxKeep),
               fragAdd |-> IF res.merged THEN "merged" ELSE "added" ]
        ELSE [ frags |-> pruneFragments(decayFragments(frags, state), turn, MaxKeep),
               fragAdd |-> "none" ]

\* lines 488-521: decay, upsert and prune of the turn; the bank it leaves and
\* what upsertFragment did
fragmentPhase(frags, probe, state, turn, rnd) ==
    LET decayed == decayFragments(frags, state)
        baseFragText == fragmentText(probe.dim, probe.focus, probe.next)
        res == upsertFragment(decayed,
                   [ key |-> makeFragmentKey(probe.dim, probe.focus, probe.next),
                     turn |-> turn, dim |-> probe.dim, focus |-> probe.focus,
                     text |-> baseFragText, salience |-> initSalience(state, probe.dim) ],
                   turn, rnd)
    IN  IF baseFragText # <<>>
        THEN [ frags |-> pruneFragments(res.frags, turn, MaxKeep),
               fragAdd |-> IF res.merged THEN "merged" ELSE "added" ]
        ELSE [ frags |-> pruneFragments(decayed, turn, MaxKeep), fragAdd |-> "none" ]

MaxOf(frags) ==
    IF frags = <<>> THEN 0
    ELSE CHOOSE m \in {frags[i].salience : i \in 1..Len(frags)} :
           \A i \in 1..Len(frags) : frags[i].salience <= m

PulseFloor == 120

\* A variant of budgets that adds a fragment for a very salient bank at any
\* state.
budgetsOneMoreFragment(state, frags, triggered) ==
    LET fi == clamp(0, 10, RDiv(lerp(0, 10 * ONE, smoothstep(200, 860, state)), ONE))
        mo == RDiv(lerp(60 * ONE, 520 * ONE, state), ONE)
    IN  [ ctx_keep_msgs |-> clamp(4, 18, RDiv(lerp(4 * ONE, 18 * ONE, powEase(state, 1250)), ONE)),
          summary_chars |-> RDiv(lerp(0, 220 * ONE, smoothstep(220, 620, state)), ONE),
          attn_items |-> clamp(0, 10, RDiv(lerp(0, 10 * ONE, smoothstep(350, 850, state)), ONE)),
          frag_items |-> IF MaxOf(frags) > 900 THEN fi + 1 ELSE fi,
          summary_update_interval |->
              clamp(1, 18, RDiv(lerp(18 * ONE, ONE, powEase(state, 1400)), ONE)),
          summary_update_max_tokens |->
              clamp(20, 120, RDiv(lerp(25 * ONE, 90 * ONE, powEase(state, 1200)), ONE)),
          max_output_tokens |-> IF triggered THEN Max(mo, PulseFloor) ELSE mo,
          temperature |-> clamp(0, 1200, lerp(50, 700, state)),
          notes |-> IF triggered /\ mo < PulseFloor THEN {"pulse floor"} ELSE {} ]

\* A variant of budgets without the floor of a pulse.
budgetsNoPulseFloor(state, frags, triggered) ==
    LET fi == clamp(0, 10, RDiv(lerp(0, 10 * ONE, smoothstep(200, 860, state)), ONE))
        mo == RDiv(lerp(60 * ONE, 520 * ONE, state), ONE)
    IN  [ ctx_keep_msgs |-> clamp(4, 18, RDiv(lerp(4 * ONE, 18 * ONE, powEase(state, 1250)), ONE)),
          summary_chars |-> RDiv(lerp(0, 220 * ONE, smoothstep(220, 620, state)), ONE),
          attn_items |-> clamp(0, 10, RDiv(lerp(0, 10 * ONE, smoothstep(350, 850, state)), ONE)),
          frag_items |-> IF fi = 0 /\ MaxOf(frags) > 900 THEN 1 ELSE fi,
          summary_update_interval |->
              clamp(1, 18, RDiv(lerp(18 * ONE, ONE, powEase(state, 1400)), ONE)),
          summary_update_max_tokens |->
              clamp(20, 120, RDiv(lerp(25 * ONE, 90 * ONE, powEase(state, 1200)), ONE)),
          max_output_tokens |-> mo,
          temperature |-> clamp(0, 1200, lerp(50, 700, state)),
          notes |-> {} ]

\* lines 526-554: the budgets of the turn
budgets(state, frags, triggered) ==
    LET fi == clamp(0, 10, RDiv(lerp(0, 10 * ONE, smoothstep(200, 860, state)), ONE))
        mo == RDiv(lerp(60 * ONE, 520 * ONE, state), ONE)
    IN  [ ctx_keep_msgs |-> clamp(4, 18, RDiv(lerp(4 * ONE, 18 * ONE, powEase(state, 1250)), ONE)),
          summary_chars |-> RDiv(lerp(0, 220 * ONE, smoothstep(220, 620, state)), ONE),
          attn_items |-> clamp(0, 10, RDiv(lerp(0, 10 * ONE, smoothstep(350, 850, state)), ONE)),
          frag_items |-> IF fi = 0 /\ MaxOf(frags) > 900 THEN 1 ELSE fi,
          summary_update_interval |->
              clamp(1, 18, RDiv(lerp(18 * ONE, ONE, powEase(state, 1400)), ONE)),
          summary_update_max_tokens |->
              clamp(20, 120, RDiv(lerp(25 * ONE, 90 * ONE, powEase(state, 1200)), ONE)),
          max_output_tokens |-> IF triggered THEN Max(mo, PulseFloor) ELSE mo,
          temperature |-> clamp(0, 1200, lerp(50, 700, state)),
          notes |-> IF triggered /\ mo < PulseFloor THEN {"pulse floor"} ELSE {} ]

\* lines 450-468: dimension weight, hysteresis, stagnation buffers, governor
resolveState(gate, rawState, probe, turn) ==
    LET dimWeighted == applyDimWeight(rawState, probe.dim, gate)
        state == hysteresisUpdate(gate.last_state, dimWeighted.raw, HystUp, HystDown, Inertia)
        metaRelax == maybeRelaxMetaCapStage(
                         updateStagnationBuffers([gate EXCEPT !.last_state = state],
                                                 probe.dim, probe.focus, state, StagnationMaxLen),
                         turn)
    IN  [ gate |-> metaRelax.gs, state |-> state, weighted |-> dimWeighted,
          changed |-> metaRelax.changed ]

\* lines 576-580: the fragments put into the main prompt, and their rehearsal
injectPhase(frags, frag_items, turn) ==
    LET fragPicked == pickTopFragments(frags, frag_items)
    IN  [ frags |-> IF fragPicked # <<>> THEN rehearseFragments(frags, fragPicked, turn)
                    ELSE frags,
          injected |-> {fragPicked[i].id : i \in 1..Len(fragPicked)} ]

\* lines 450-598, from the raw state to the main request, for the effective
\* probe: what the session and the locals become.  rs, fp, b and inj are the
\* results of the four phases above.
commitResult(sess, L, probe, triggered, rs, fp, b, inj) ==
    [ sess |-> [sess EXCEPT
                  !.gate = rs.gate,
                  !.memory.attn_log = attnLogPush(@, L.turn, probe),
                  !.memory.fragments = inj.frags],
      L |-> [L EXCEPT
               !.pc = "main",
               !.requests = Append(@, "main"),
               !.effective = probe,
               !.triggered = triggered,
               !.resolved = TRUE,
               !.prev = sess.gate.last_state,
               !.capStage = sess.gate.meta_cap_stage,
               !.weighted = rs.weighted.raw,
               !.metaCap = rs.weighted.metaCap,
               !.state = rs.state,
               !.metaChanged = rs.changed,
               !.fragAdd = fp.fragAdd,
               !.injected = inj.injected,
               !.ctx_keep_msgs = b.ctx_keep_msgs,
               !.summary_chars = b.summary_chars,
               !.attn_items = b.attn_items,
               !.frag_items = b.frag_items,
               !.summary_update_interval = b.summary_update_interval,
               !.summary_update_max_tokens = b.summary_update_max_tokens,
               !.max_output_tokens = b.max_output_tokens,
               !.temperature = b.temperature,
               !.notes = @ \cup rs.weighted.notes \cup b.notes
                           \cup (IF triggered THEN {"pulse selected"} ELSE {})
                           \cup (IF rs.changed THEN {"meta cap relaxed"} ELSE {})] ]

commitInject(sess, L, probe, triggered, rs, fp, b) ==
    commitResult(sess, L, probe, triggered, rs, fp, b,
                 injectPhase(fp.frags, b.frag_items, L.turn))

commitMemory(sess, L, probe, triggered, rnd, rs, fp) ==
    commitInject(sess, L, probe, triggered, rs, fp, budgets(rs.state, fp.frags, triggered))

commitState(sess, L, probe, triggered, rnd, rs) ==
    commitMemory(sess, L, probe, triggered, rnd, rs,
                 fragmentPhase(sess.memory.fragments, probe, rs.state, L.turn, rnd))

commitTurn(sess, L, probe, triggered, rnd) ==
    commitState(sess, L, probe, triggered, rnd,
                resolveState(sess.gate, L.rawStateFromScore, probe, L.turn))

\* the catch block of POST: the request ends as a 500
Fail(L) == [L EXCEPT !.pc = "failed", !.status = 500, !.thrown = @ \cup {L.pc}]

\* A variant of Start that looks at userText only after it has taken the
\* session and counted the turn.
StartCountsFirst(p, sessionId, userText) ==
    /\ proc[p].pc \in Resting
    /\ IF sessionId = Null
       THEN /\ proc' = [proc EXCEPT ![p] = [IdleLocals EXCEPT !.pc = "rejected", !.status = 400]]
            /\ UNCHANGED sessions
       ELSE LET sess == getSession(sessions, sessionId)
            IN  /\ sessions' = (sessionId :> [sess EXCEPT
                                   !.turn = @ + 1,
                                   !.history = Append(@, [role |-> "user", content |-> userText])])
                               @@ sessions
                /\ proc' = [proc EXCEPT ![p] =
                              IF trim(userText) = <<>>
                              THEN [IdleLocals EXCEPT !.pc = "rejected", !.status = 400]
                              ELSE [IdleLocals EXCEPT !.pc = "probe", !.sid = sessionId,
                                                      !.userText = userText, !.turn = sess.turn + 1,
                                                      !.pre = sess, !.requests = <<"probe">>]]

\* lines 280-312: the request arrives; validation, getSession, the turn
\* counter, the user message, and the probe request is issued
Start(p, sessionId, userText) ==
    /\ proc[p].pc \in Resting
    /\ IF sessionId = Null \/ trim(userText) = <<>>
       THEN /\ proc' = [proc EXCEPT ![p] = [IdleLocals EXCEPT !.pc = "rejected", !.status = 400]]
            /\ UNCHANGED sessions
       ELSE LET sess == getSession(sessions, sessionId)
            IN  /\ sessions' = (sessionId :> [sess EXCEPT
                                   !.turn = @ + 1,
                                   !.history = Append(@, [role |-> "user", content |-> userText])])
                               @@ sessions
                /\ proc' = [proc EXCEPT ![p] =
                              [IdleLocals EXCEPT !.pc = "probe", !.sid = sessionId,
                                                 !.userText = userText, !.turn = sess.turn + 1,
                                                 !.pre = sess, !.requests = <<"probe">>]]

\* A variant of ProbeResp that resumes with the gate state as getSession
\* returned it at the start of the turn.
ProbeRespFromSnapshot(p, r, rnd) ==
    /\ proc[p].pc = "probe"
    /\ LET L == proc[p]
           sess == [sessions[L.sid] EXCEPT !.gate = L.pre.gate]
           m == probeMetrics(sess.gate, r.S, r.H)
           sess1 == [sess EXCEPT !.gate = m.gate]
           original == [dim |-> r.dim, focus |-> r.focus, next |-> r.next]
           L1 == [L EXCEPT !.original = original, !.effective = original,
                           !.S = r.S, !.H = r.H, !.zS = m.zS, !.zH = m.zH,
                           !.scored = m.scored, !.score = m.score,
                           !.rawStateFromScore = m.rawStateFromScore,
                           !.stagnation = shouldExplorationPulse(sess1.gate),
                           !.repeatingDim = IF Len(sess1.gate.last_dims) > 0
                                            THEN sess1.gate.last_dims[Len(sess1.gate.last_dims)]
                                            ELSE Null,
                           !.notes = m.notes]
           c == commitTurn(sess1, L1, original, FALSE, rnd)
       IN  IF ~r.ok
           THEN /\ proc' = [proc EXCEPT ![p] = Fail(L)]
                /\ UNCHANGED sessions
           ELSE IF pulseWanted(sess1.gate, L.turn)
           THEN /\ sessions' = [sessions EXCEPT ![L.sid] = sess1]
                /\ proc' = [proc EXCEPT ![p] =
                              [L1 EXCEPT !.pc = "explore", !.requests = Append(@, "explore")]]
           ELSE /\ sessions' = [sessions EXCEPT ![L.sid] = c.sess]
                /\ proc' = [proc EXCEPT ![p] = c.L]

\* lines 314-380 and, when no exploration request is issued, 447-598: the
\* probe request returns r, or throws
ProbeResp(p, r, rnd) ==
    /\ proc[p].pc = "probe"
    /\ LET L == proc[p]
           sess == sessions[L.sid]
           m == probeMetrics(sess.gate, r.S, r.H)
           sess1 == [sess EXCEPT !.gate = m.gate]
           original == [dim |-> r.dim, focus |-> r.focus, next |-> r.next]
           L1 == [L EXCEPT !.original = original, !.effective = original,
                           !.S = r.S, !.H = r.H, !.zS = m.zS, !.zH = m.zH,
                           !.scored = m.scored, !.score = m.score,
                           !.rawStateFromScore = m.rawStateFromScore,
                           !.stagnation = shouldExplorationPulse(sess1.gate),
                           !.repeatingDim = IF Len(sess1.gate.last_dims) > 0
                                            THEN sess1.gate.last_dims[Len(sess1.gate.last_dims)]
                                            ELSE Null,
                           !.notes = m.notes]
           c == commitTurn(sess1, L1, original, FALSE, rnd)
       IN  IF ~r.ok
           THEN /\ proc' = [proc EXCEPT ![p] = Fail(L)]
                /\ UNCHANGED sessions
           ELSE IF pulseWanted(sess1.gate, L.turn)
           THEN /\ sessions' = [sessions EXCEPT ![L.sid] = sess1]
                /\ proc' = [proc EXCEPT ![p] =
                              [L1 EXCEPT !.pc = "explore", !.requests = Append(@, "explore")]]
           ELSE /\ sessions' = [sessions EXCEPT ![L.sid] = c.sess]
                /\ proc' = [proc EXCEPT ![p] = c.L]

\* A variant of ExploreResp in which a throwing exploration request ends the
\* turn in the catch block of POST.
ExploreRespAborting(p, r, rnd) ==
    /\ proc[p].pc = "explore"
    /\ LET L == proc[p]
           sess == sessions[L.sid]
           cands == parseCandidates(r.blocks)
           abandoned == commitTurn(sess, [L EXCEPT !.cands = cands], L.original, FALSE, rnd)
       IN  IF ~r.ok
           THEN /\ proc' = [proc EXCEPT ![p] = Fail(L)]
                /\ UNCHANGED sessions
           ELSE IF Len(cands) >= 2
           THEN /\ proc' = [proc EXCEPT ![p] =
                              [L EXCEPT !.pc = "verify", !.cands = cands,
                                        !.requests = Append(@, "verify")]]
                /\ UNCHANGED sessions
           ELSE /\ sessions' = [sessions EXCEPT ![L.sid] = abandoned.sess]
                /\ proc' = [proc EXCEPT ![p] = abandoned.L]

\* A variant of ExploreResp that asks for arbitration over a single candidate.
ExploreRespOneIsEnough(p, r, rnd) ==
    /\ proc[p].pc = "explore"
    /\ LET L == proc[p]
           sess == sessions[L.sid]
           cands == parseCandidates(r.blocks)
           failed == commitTurn(sess, [L EXCEPT !.notes = @ \cup {"exploration pulse failed"},
                                                !.thrown = @ \cup {L.pc}],
                                L.original, FALSE, rnd)
           abandoned == commitTurn(sess, [L EXCEPT !.cands = cands], L.original, FALSE, rnd)
       IN  IF ~r.ok
           THEN /\ sessions' = [sessions EXCEPT ![L.sid] = failed.sess]
                /\ proc' = [proc EXCEPT ![p] = failed.L]
           ELSE IF Len(cands) >= 1
           THEN /\ proc' = [proc EXCEPT ![p] =
                              [L EXCEPT !.pc = "verify", !.cands = cands,
                                        !.requests = Append(@, "verify")]]
                /\ UNCHANGED sessions
           ELSE /\ sessions' = [sessions EXCEPT ![L.sid] = abandoned.sess]
                /\ proc' = [proc EXCEPT ![p] = abandoned.L]

\* A variant of ExploreResp that asks for candidates again when the answer
\* yields fewer than two.
ExploreRespRetrying(p, r, rnd) ==
    /\ proc[p].pc = "explore"
    /\ LET L == proc[p]
           sess == sessions[L.sid]
           cands == parseCandidates(r.blocks)
           failed == commitTurn(sess, [L EXCEPT !.notes = @ \cup {"exploration pulse failed"},
                                                !.thrown = @ \cup {L.pc}],
                                L.original, FALSE, rnd)
       IN  IF ~r.ok
           THEN /\ sessions' = [sessions EXCEPT ![L.sid] = failed.sess]
                /\ proc' = [proc EXCEPT ![p] = failed.L]
           ELSE IF Len(cands) >= 2
           THEN /\ proc' = [proc EXCEPT ![p] =
                              [L EXCEPT !.pc = "verify", !.cands = cands,
                                        !.requests = Append(@, "verify")]]
                /\ UNCHANGED sessions
           ELSE /\ proc' = [proc EXCEPT ![p] =
                              [L EXCEPT !.cands = cands, !.requests = Append(@, "explore")]]
                /\ UNCHANGED sessions

\* lines 401-405 and 442-598: the exploration request returns r.blocks, or throws
ExploreResp(p, r, rnd) ==
    /\ proc[p].pc = "explore"
    /\ LET L == proc[p]
           sess == sessions[L.sid]
           cands == parseCandidates(r.blocks)
           failed == commitTurn(sess, [L EXCEPT !.notes = @ \cup {"exploration pulse failed"},
                                                !.thrown = @ \cup {L.pc}],
                                L.original, FALSE, rnd)
           abandoned == commitTurn(sess, [L EXCEPT !.cands = cands], L.original, FALSE, rnd)
       IN  IF ~r.ok
           THEN /\ sessions' = [sessions EXCEPT ![L.sid] = failed.sess]
                /\ proc' = [proc EXCEPT ![p] = failed.L]
           ELSE IF Len(cands) >= 2
           THEN /\ proc' = [proc EXCEPT ![p] =
                              [L EXCEPT !.pc = "verify", !.cands = cands,
                                        !.requests = Append(@, "verify")]]
                /\ UNCHANGED sessions
           ELSE /\ sessions' = [sessions EXCEPT ![L.sid] = abandoned.sess]
                /\ proc' = [proc EXCEPT ![p] = abandoned.L]

\* A variant of VerifyResp that leaves last_pulse_turn as it was.
VerifyRespKeepsPulseTurn(p, r, rnd) ==
    /\ proc[p].pc = "verify"
    /\ LET L == proc[p]
           sess == sessions[L.sid]
           pick == IF r.pick = NoNum THEN 1 ELSE r.pick
           idx == clamp(1, Len(L.cands), pick)
           selected == [dim |-> L.cands[idx].dim, focus |-> L.cands[idx].focus,
                        next |-> L.cands[idx].next]
           failed == commitTurn(sess, [L EXCEPT !.notes = @ \cup {"exploration pulse failed"},
                                                !.thrown = @ \cup {L.pc}],
                                L.original, FALSE, rnd)
           chosen == commitTurn(sess,
                                [L EXCEPT !.picked = idx, !.pickReply = r.pick], selected, TRUE, rnd)
       IN  IF ~r.ok
           THEN /\ sessions' = [sessions EXCEPT ![L.sid] = failed.sess]
                /\ proc' = [proc EXCEPT ![p] = failed.L]
           ELSE /\ sessions' = [sessions EXCEPT ![L.sid] = chosen.sess]
                /\ proc' = [proc EXCEPT ![p] = chosen.L]

\* A variant of VerifyResp that takes the last candidate when the reply does not
\* parse.
VerifyRespDefaultsToLast(p, r, rnd) ==
    /\ proc[p].pc = "verify"
    /\ LET L == proc[p]
           sess == sessions[L.sid]
           pick == IF r.pick = NoNum THEN Len(L.cands) ELSE r.pick
           idx == clamp(1, Len(L.cands), pick)
           selected == [dim |-> L.cands[idx].dim, focus |-> L.cands[idx].focus,
                        next |-> L.cands[idx].next]
           failed == commitTurn(sess, [L EXCEPT !.notes = @ \cup {"exploration pulse failed"},
                                                !.thrown = @ \cup {L.pc}],
                                L.original, FALSE, rnd)
           chosen == commitTurn([sess EXCEPT !.gate.last_pulse_turn = L.turn],
                                [L EXCEPT !.picked = idx, !.pickReply = r.pick], selected, TRUE, rnd)
       IN  IF ~r.ok
           THEN /\ sessions' = [sessions EXCEPT ![L.sid] = failed.sess]
                /\ proc' = [proc EXCEPT ![p] = failed.L]
           ELSE /\ sessions' = [sessions EXCEPT ![L.sid] = chosen.sess]
                /\ proc' = [proc EXCEPT ![p] = chosen.L]

\* A variant of VerifyResp that goes on with the original probe after its pick.
VerifyRespKeepsOriginal(p, r, rnd) ==
    /\ proc[p].pc = "verify"
    /\ LET L == proc[p]
           sess == sessions[L.sid]
           pick == IF r.pick = NoNum THEN 1 ELSE r.pick
           idx == clamp(1, Len(L.cands), pick)
           selected == [dim |-> L.cands[idx].dim, focus |-> L.cands[idx].focus,
                        next |-> L.cands[idx].next]
           failed == commitTurn(sess, [L EXCEPT !.notes = @ \cup {"exploration pulse failed"},
                                                !.thrown = @ \cup {L.pc}],
                                L.original, FALSE, rnd)
           chosen == commitTurn([sess EXCEPT !.gate.last_pulse_turn = L.turn],
                                [L EXCEPT !.picked = idx, !.pickReply = r.pick], L.original, TRUE, rnd)
       IN  IF ~r.ok
           THEN /\ sessions' = [sessions EXCEPT ![L.sid] = failed.sess]
                /\ proc' = [proc EXCEPT ![p] = failed.L]
           ELSE /\ sessions' = [sessions EXCEPT ![L.sid] = chosen.sess]
                /\ proc' = [proc EXCEPT ![p] = chosen.L]

\* lines 429-598: the arbitration request returns r.pick (what parsePick makes
\* of the answer, NoNum for null), or throws
VerifyResp(p, r, rnd) ==
    /\ proc[p].pc = "verify"
    /\ LET L == proc[p]
           sess == sessions[L.sid]
           pick == IF r.pick = NoNum THEN 1 ELSE r.pick
           idx == clamp(1, Len(L.cands), pick)
           selected == [dim |-> L.cands[idx].dim, focus |-> L.cands[idx].focus,
                        next |-> L.cands[idx].next]
           failed == commitTurn(sess, [L EXCEPT !.notes = @ \cup {"exploration pulse failed"},
                                                !.thrown = @ \cup {L.pc}],
                                L.original, FALSE, rnd)
           chosen == commitTurn([sess EXCEPT !.gate.last_pulse_turn = L.turn],
                                [L EXCEPT !.picked = idx, !.pickReply = r.pick], selected, TRUE, rnd)
       IN  IF ~r.ok
           THEN /\ sessions' = [sessions EXCEPT ![L.sid] = failed.sess]
                /\ proc' = [proc EXCEPT ![p] = failed.L]
           ELSE /\ sessions' = [sessions EXCEPT ![L.sid] = chosen.sess]
                /\ proc' = [proc EXCEPT ![p] = chosen.L]

\* lines 600-624: the main request returns r.text, or throws; the summary
\* request is issued when it is due
MainResp(p, r) ==
    /\ proc[p].pc = "main"
    /\ LET L == proc[p]
           sess == sessions[L.sid]
           due == L.turn - sess.memory.summary_updated_turn >= L.summary_update_interval
       IN  IF ~r.ok
           THEN /\ proc' = [proc EXCEPT ![p] = Fail(L)]
                /\ UNCHANGED sessions
           ELSE /\ sessions' = [sessions EXCEPT ![L.sid].history =
                                   Append(@, [role |-> "assistant", content |-> r.text])]
                /\ proc' = [proc EXCEPT ![p] =
                              IF due
                              THEN [L EXCEPT !.pc = "summary", !.assistantText = r.text,
                                             !.requests = Append(@, "summary")]
                              ELSE [L EXCEPT !.pc = "done", !.status = 200,
                                             !.assistantText = r.text]]

\* A variant of SummaryResp that stamps the turn of the refresh even when the
\* answer holds no text.
SummaryRespStampsBlank(p, r) ==
    /\ proc[p].pc = "summary"
    /\ LET L == proc[p]
           newSummary == oneLineSummary(r.text)
       IN  IF ~r.ok
           THEN /\ proc' = [proc EXCEPT ![p] =
                              [L EXCEPT !.pc = "done", !.status = 200,
                                        !.thrown = @ \cup {L.pc},
                                        !.notes = @ \cup {"summary update failed"}]]
                /\ UNCHANGED sessions
           ELSE /\ sessions' = [sessions EXCEPT
                                  ![L.sid].memory.summary =
                                      IF newSummary # Null THEN newSummary ELSE @,
                                  ![L.sid].memory.summary_updated_turn = L.turn]
                /\ proc' = [proc EXCEPT ![p] = [L EXCEPT !.pc = "done", !.status = 200,
                                                         !.summaryReply = r.text]]

\* lines 610-688: the summary request returns r.text, or throws
SummaryResp(p, r) ==
    /\ proc[p].pc = "summary"
    /\ LET L == proc[p]
           newSummary == oneLineSummary(r.text)
       IN  IF ~r.ok
           THEN /\ proc' = [proc EXCEPT ![p] =
                              [L EXCEPT !.pc = "done", !.status = 200,
                                        !.thrown = @ \cup {L.pc},
                                        !.notes = @ \cup {"summary update failed"}]]
                /\ UNCHANGED sessions
           ELSE /\ sessions' = IF newSummary # Null
                               THEN [sessions EXCEPT
                                       ![L.sid].memory.summary = newSummary,
                                       ![L.sid].memory.summary_updated_turn = L.turn]
                               ELSE sessions
                /\ proc' = [proc EXCEPT ![p] = [L EXCEPT !.pc = "done", !.status = 200,
                                                         !.summaryReply = r.text]]

\* ------------------------------------------------------------------------
\* The environment: requests and answers of the completion service

\* Math.random's draw in makeFragmentId
RandDraws == {7}

Str(x) == IF x = "" THEN Null ELSE Chars(x)

\* an answer to the probe request; "" is an absent field
Probe(dim, focus, next, S, H) ==
    [ok |-> TRUE, dim |-> Str(dim), focus |-> Str(focus), next |-> Str(next), S |-> S, H |-> H]

\* the request throws (network error, HTTP error)
Thrown == [ok |-> FALSE, dim |-> Null, focus |-> Null, next |-> Null, S |-> NoNum, H |-> NoNum,
           text |-> <<>>, blocks |-> <<>>, pick |-> NoNum]

Text(t) == [ok |-> TRUE, text |-> Chars(t)]

\* a focus of 170 characters
LongFocus ==
    LET fifty == "a focus phrase that runs on and on and on and on, "
    IN  fifty \o fifty \o fifty \o "and on and on and on"

\* ------------------------------------------------------------------------
\* Spec: one session, one request at a time, a few turns, every kind of probe

MaxTurns == 3

Init ==
    /\ sessions = << >>
    /\ proc = [p \in {1} |-> IdleLocals]

TurnsOf(sessionId) == IF sessionId \in DOMAIN sessions THEN sessions[sessionId].turn ELSE 0

SeqProbes ==
    { Probe("RISK", "db", "", NoNum, NoNum),
      Probe("META", "db", "", NoNum, NoNum),
      Probe("", "", "", NoNum, NoNum),
      Probe("GOAL", "DB", "", 5000, 2000),
      Probe("GOAL", "db", "", 2000, NoNum),
      Probe("GOAL", "db", "", 500, NoNum),
      Probe("META", LongFocus, "", 5000, NoNum),
      Probe("RISK", "db", "retry", 5000, 2000),
      Thrown }

Next ==
    \/ \E sid \in {Chars("s1"), Null}, text \in {Chars("hello"), Chars("  ")} :
         TurnsOf(sid) < MaxTurns /\ Start(1, sid, text)
    \/ \E r \in SeqProbes, rnd \in RandDraws : ProbeResp(1, r, rnd)
    \/ \E r \in {Text("answer"), Thrown} : MainResp(1, r)

Spec == Init /\ [][Next]_vars

\* ------------------------------------------------------------------------
\* Properties of the state resolver, under Spec

Procs == DOMAIN proc

\* the request of p has passed lines 450-454
Resolved(p) == proc[p].resolved

\* the probe of p's request carried no log-probabilities
NoLogprobs(p) == proc[p].S = NoNum /\ proc[p].H = NoNum

\* C1: on a turn whose probe carries no log-probabilities the resolved state
\* equals the session's state from before the turn, whatever the dimension; a
\* fresh session resolves to 0.3.
C1_NoLogprobsKeepsState ==
    \A p \in Procs :
        Resolved(p) /\ NoLogprobs(p) => proc[p].state = proc[p].pre.gate.last_state

\* C9: last_state lies in [0, 1], and each resolved state is
\* clamp01(0.6 previous + 0.4 target), the target being the previous state or
\* the dimension-weighted raw value.
C9_StateIsBlend ==
    /\ \A sid \in DOMAIN sessions :
           sessions[sid].gate.last_state >= 0 /\ sessions[sid].gate.last_state <= ONE
    /\ \A p \in Procs :
           Resolved(p) =>
             /\ sessions[proc[p].sid].gate.last_state = proc[p].state
             /\ \E target \in {proc[p].prev, proc[p].weighted} :
                    proc[p].state = clamp01(RDiv(600 * proc[p].prev + 400 * target, 1000))

\* a turn resolved toward a weighted raw value outside the band, which moved
\* the state
C9_Moved ==
    \E p \in Procs :
        /\ Resolved(p)
        /\ proc[p].weighted >= 620
        /\ proc[p].state # proc[p].prev
        /\ proc[p].state = RDiv(600 * proc[p].prev + 400 * proc[p].weighted, 1000)

\* the weighted raw value of p's turn lies strictly inside (0.48, 0.62)
InBand(p) == proc[p].weighted > 480 /\ proc[p].weighted < 620

\* C10: on a turn whose dimension-weighted raw value lies strictly inside
\* (0.48, 0.62) the resolved state equals the previous state.
C10_Sticky ==
    \A p \in Procs : Resolved(p) /\ InBand(p) => proc[p].state = proc[p].prev

\* a turn inside the band whose raw value differs from the previous state,
\* after an earlier turn had moved the state
C10_HeldInBand ==
    \E p \in Procs :
        /\ Resolved(p) /\ InBand(p)
        /\ proc[p].weighted # proc[p].prev
        /\ proc[p].prev # createInitialGateState.last_state


\* ------------------------------------------------------------------------
\* Properties of a failed turn and of the fragment bank, under Spec

\* the request of p ended in the catch block after its main request threw
MainFailed(p) == proc[p].pc = "failed" /\ Resolved(p)

\* C3: a turn whose main completion call fails commits no partial state: the
\* baselines, last_state, the stagnation buffers, the governance stage and the
\* fragment bank are as they were before the turn began.
C3_MainFailureCommitsNothing ==
    \A p \in Procs :
        MainFailed(p) =>
          LET now == sessions[proc[p].sid]
              pre == proc[p].pre
          IN  /\ now.gate.S = pre.gate.S
              /\ now.gate.H = pre.gate.H
              /\ now.gate.last_state = pre.gate.last_state
              /\ now.gate.last_dims = pre.gate.last_dims
              /\ now.gate.last_focus = pre.gate.last_focus
              /\ now.gate.last_states = pre.gate.last_states
              /\ now.gate.meta_cap_stage = pre.gate.meta_cap_stage
              /\ now.memory.fragments = pre.memory.fragments

Bank(sid) == sessions[sid].memory.fragments

\* C5: no two fragments of a session's bank have the same key.
C5_KeysUnique ==
    \A sid \in DOMAIN sessions :
        \A i, j \in 1..Len(Bank(sid)) : Bank(sid)[i].key = Bank(sid)[j].key => i = j

\* a turn merged its fragment into one of the same key whose focus was spelled
\* differently, in a bank of several fragments
C5_MergedOnConflict ==
    \E p \in Procs :
        /\ proc[p].fragAdd = "merged"
        /\ Len(Bank(proc[p].sid)) >= 2
        /\ \E i \in 1..Len(proc[p].pre.memory.fragments) :
              LET f == proc[p].pre.memory.fragments[i]
              IN  /\ f.key = makeFragmentKey(proc[p].effective.dim, proc[p].effective.focus,
                                             proc[p].effective.next)
                  /\ f.focus # proc[p].effective.focus

\* ------------------------------------------------------------------------
\* SpecRace: two requests for one session id, as the runtime delivers them:
\* each await of a handler yields to the event loop, which may run the other

RaceTurns == 2

RaceProbes == { Probe("GOAL", "db", "", 5000, NoNum), Probe("RISK", "db", "", NoNum, NoNum), Thrown }

InitRace ==
    /\ sessions = << >>
    /\ proc = [p \in {1, 2} |-> IdleLocals]

NextRace ==
    \E p \in {1, 2} :
        \/ TurnsOf(Chars("s1")) < RaceTurns /\ Start(p, Chars("s1"), Chars("hello"))
        \/ \E r \in RaceProbes, rnd \in RandDraws : ProbeResp(p, r, rnd)
        \/ \E r \in {Text("answer"), Thrown} : MainResp(p, r)

SpecRace == InitRace /\ [][NextRace]_vars

\* the request of p is suspended at a completion call
InFlight(p) == proc[p].pc \in Suspended

\* C2: at most one turn per session is in flight: while a turn of a session is
\* suspended at a completion call no other turn of the same session id has
\* read or written the session.
C2_OneTurnInFlight ==
    \A p, q \in Procs :
        InFlight(p) /\ InFlight(q) /\ proc[p].sid = proc[q].sid => p = q

\* ------------------------------------------------------------------------
\* SpecHot: one session whose probes grow more and more surprising, so that
\* the state climbs toward 1 and the saliences toward their ceiling

HotTurns == 8

\* the mean surprisal of the turn's probe
HotS == <<6000, 10000, 14000, 19000, 25000, 32000, 40000, 50000, 50000, 50000>>

HotProbes(turn) ==
    { Probe("RISK", "db", "", HotS[turn], NoNum),
      Probe("GOAL", "api", "", HotS[turn], NoNum) }

NextHot ==
    \/ TurnsOf(Chars("s1")) < HotTurns /\ Start(1, Chars("s1"), Chars("hello"))
    \/ /\ proc[1].pc = "probe"
       /\ \E r \in HotProbes(proc[1].turn), rnd \in RandDraws : ProbeResp(1, r, rnd)
    \/ MainResp(1, Text("answer"))
    \/ \E r \in {Text("a summary"), Thrown} : SummaryResp(1, r)

SpecHot == Init /\ [][NextHot]_vars

\* C6: every fragment's salience lies in [0, 1.2], newly inserted, decayed,
\* merged or rehearsed.
C6_SalienceInRange ==
    \A sid \in DOMAIN sessions :
        \A i \in 1..Len(Bank(sid)) :
            Bank(sid)[i].salience >= 0 /\ Bank(sid)[i].salience <= 1200

\* a turn decayed the bank, merged its fragment into an old one and rehearsed
\* it, and the rehearsal's bonus was cut at the ceiling
C6_AtCeiling ==
    \E p \in Procs :
        /\ proc[p].pc = "main" /\ proc[p].fragAdd = "merged"
        /\ Len(Bank(proc[p].sid)) >= 2
        /\ \E i \in 1..Len(Bank(proc[p].sid)) :
              /\ Bank(proc[p].sid)[i].id \in proc[p].injected
              /\ Bank(proc[p].sid)[i].turn = proc[p].turn
              /\ Bank(proc[p].sid)[i].salience = 1200

\* ------------------------------------------------------------------------
\* SpecPrune: pruneFragments on its own, applied at turn PruneNow to banks of
\* around forty fragments

PruneNow == 20
PruneMinLen == 38
PruneMaxLen == 43

\* the salience of the i-th fragment of a bank: ascending, descending to 0,
\* scattered with ties, or all equal
PruneSal(pat, i) ==
    CASE pat = 1 -> 20 * i + 10
      [] pat = 2 -> Max(0, 1000 - 24 * i)
      [] pat = 3 -> ((i * 7) % 11) * 100 + 55
      [] OTHER   -> 500

\* the turn of the i-th fragment: all of this turn, ages 0 to 11, or all old
PruneTurn(agepat, i) ==
    CASE agepat = 1 -> PruneNow
      [] agepat = 2 -> PruneNow - (i % 12)
      [] OTHER      -> PruneNow - 15

PruneBank(n, pat, agepat) ==
    [i \in 1..n |->
       [ id |-> makeFragmentId(PruneTurn(agepat, i), i),
         key |-> [j \in 1..i |-> "k"],
         turn |-> PruneTurn(agepat, i),
         dim |-> Chars("GOAL"),
         focus |-> [j \in 1..i |-> "k"],
         text |-> Chars("(GOAL) ") \o [j \in 1..i |-> "k"],
         salience |-> PruneSal(pat, i),
         last_used_turn |-> 0 - 999 ]]

InitPrune ==
    /\ \E n \in PruneMinLen..PruneMaxLen, pat \in 1..4, agepat \in 1..3 :
          sessions = (Chars("s1") :>
                        [NewSession(Chars("s1")) EXCEPT
                           !.turn = PruneNow,
                           !.memory.fragments = PruneBank(n, pat, agepat)])
    /\ proc = [p \in {1} |-> IdleLocals]

\* line 521: pruneFragments(sess.memory.fragments, turn, 40)
Prune(p) ==
    /\ proc[p].pc = "idle"
    /\ LET sess == sessions[Chars("s1")]
       IN  /\ sessions' = [sessions EXCEPT ![Chars("s1")].memory.fragments =
                               pruneFragments(@, sess.turn, MaxKeep)]
           /\ proc' = [proc EXCEPT ![p] = [IdleLocals EXCEPT !.pc = "done", !.sid = Chars("s1"),
                                                             !.turn = sess.turn, !.pre = sess]]

NextPrune == Prune(1)

SpecPrune == InitPrune /\ [][NextPrune]_vars

\* pruneFragments has been applied for p
Pruned(p) == proc[p].pc = "done"

\* f has both salience < 0.06 and an age above 8 turns at p's turn
LowAndOld(f, p) == f.salience < 60 /\ proc[p].turn - f.turn > 8

IdsOf(frags) == {frags[i].id : i \in 1..Len(frags)}

\* C7: after pruneFragments(frags, turn, 40) the bank holds at most 40
\* fragments, none with both salience < 0.06 and age > 8, and every fragment
\* removed by the size cut has salience no greater than every fragment kept.
C7_PruneResult ==
    \A p \in Procs :
        Pruned(p) =>
          LET before == proc[p].pre.memory.fragments
              after  == Bank(proc[p].sid)
          IN  /\ Len(after) <= 40
              /\ \A i \in 1..Len(after) : ~LowAndOld(after[i], p)
              /\ \A i \in 1..Len(before) :
                     (before[i].id \notin IdsOf(after) /\ ~LowAndOld(before[i], p)) =>
                        \A j \in 1..Len(after) : before[i].salience <= after[j].salience

\* a prune that dropped a low and old fragment and also cut to size, removing
\* a fragment that was not the last of the bank
C7_BothCuts ==
    \E p \in Procs :
        /\ Pruned(p)
        /\ Len(Bank(proc[p].sid)) = 40
        /\ LET before == proc[p].pre.memory.fragments
               after  == Bank(proc[p].sid)
           IN  /\ \E i \in 1..Len(before) : LowAndOld(before[i], p)
               /\ \E i \in 1..Len(before) :
                      /\ before[i].id \notin IdsOf(after)
                      /\ ~LowAndOld(before[i], p)
                      /\ i < Len(before)

\* ------------------------------------------------------------------------
\* SpecLong: one session over enough turns for the governor to relax twice,
\* for the buffers and the attention log to fill and evict, and for the pulse
\* and the summary to run.  The probes are calm (surprisal and entropy at their
\* baselines, the frame unchanged) but for a few turns.

LongTurns == 31

MetaHot  == Probe("META", "self", "", 5000, NoNum)
MetaCalm == Probe("META", "self", "", 2000, 1000)
GoalCalm == Probe("GOAL", "db", "retry", 2000, 1000)

LastDim(gate) == IF Len(gate.last_dims) > 0 THEN gate.last_dims[Len(gate.last_dims)] ELSE Null

\* what the probe of turn t may answer; at turns 18 and 28 it may also come
\* back with no DIM, FOCUS or NEXT, which leaves the turn without a fragment
LongProbes(t, gate) ==
    IF t \in {3, 14, 31} THEN {MetaHot, GoalCalm}
    ELSE IF t \in {5, 25} THEN {MetaCalm, GoalCalm}
    ELSE IF t \in {6, 7, 8, 26, 27} THEN (IF LastDim(gate) = META THEN {MetaCalm} ELSE {GoalCalm})
    ELSE IF t = 18 THEN {Probe("", "", "", 2000, 1000), GoalCalm}
    ELSE IF t = 28 THEN {Probe("GOAL", LongFocus, "", 2000, 1000), GoalCalm,
                         Probe("", "", "", 2000, 1000)}
    ELSE {GoalCalm}

Block(lines, dim, focus) == [lines |-> lines, dim |-> Str(dim), focus |-> Str(focus), next |-> Null]

\* answers to the exploration request: three usable candidates among four
\* blocks, or a single one
Cands3 == [ok |-> TRUE, blocks |-> << Block(3, "NOVELTY", "cache"), Block(1, "RISK", "db"),
                                      Block(3, "RISK", "db"), Block(2, "", "ui") >>]
Cands1 == [ok |-> TRUE, blocks |-> << Block(3, "NOVELTY", "cache"), Block(3, "", "") >>]
\* two candidates, the second on the dimension of the calm probes
Cands2 == [ok |-> TRUE, blocks |-> << Block(3, "NOVELTY", "cache"), Block(4, "GOAL", "db") >>]

Pick(n) == [ok |-> TRUE, pick |-> n]

ExploreAnswers(t) ==
    IF t = 9 THEN {Cands3, Cands2, Cands1, Thrown}
    ELSE IF t = 12 THEN {Cands3, Cands1, Thrown}
    ELSE IF t = 15 THEN {Cands3, Thrown}
    ELSE {Cands3}
VerifyAnswers(t) == IF t \in {9, 12} THEN {Pick(3), Pick(NoNum), Thrown} ELSE {Pick(2)}

\* answers to the summary request: a long line, a blank one, or none
SummaryAnswers(t) ==
    IF t \in {14, 15} THEN {Text(LongFocus), Text("  "), Thrown} ELSE {Text(LongFocus)}

NextLong ==
    \/ TurnsOf(Chars("s1")) < LongTurns /\ Start(1, Chars("s1"), Chars("hello"))
    \/ /\ proc[1].pc = "probe"
       /\ \E r \in LongProbes(proc[1].turn, sessions[proc[1].sid].gate), rnd \in RandDraws :
             ProbeResp(1, r, rnd)
    \/ \E r \in ExploreAnswers(proc[1].turn), rnd \in RandDraws : ExploreResp(1, r, rnd)
    \/ \E r \in VerifyAnswers(proc[1].turn), rnd \in RandDraws : VerifyResp(1, r, rnd)
    \/ MainResp(1, Text("answer"))
    \/ \E r \in SummaryAnswers(proc[1].turn) : SummaryResp(1, r)

SpecLong == Init /\ [][NextLong]_vars

\* ------------------------------------------------------------------------
\* Properties of the governor and of the capacities, under SpecLong

Stage(sid) == sessions[sid].gate.meta_cap_stage

\* the cap of a META turn resolved at p is the one of the stage it read
CapOfStage(p) ==
    /\ proc[p].capStage = 0 =>
          proc[p].metaCap = 550 /\ proc[p].weighted = Min(proc[p].rawStateFromScore, 550)
    /\ proc[p].capStage = 1 =>
          proc[p].metaCap = 650 /\ proc[p].weighted = Min(proc[p].rawStateFromScore, 650)
    /\ proc[p].capStage = 2 =>
          proc[p].metaCap = NoNum /\ proc[p].weighted = proc[p].rawStateFromScore

\* C4: meta_cap_stage never decreases and is 0, 1 or 2; the cap applied to a
\* META turn is 0.55 at stage 0, 0.65 at stage 1 and none at stage 2.
C4_StageMonotoneAndCap ==
    /\ [](\A sid \in DOMAIN sessions : Stage(sid) \in {0, 1, 2})
    /\ [](\A p \in Procs : Resolved(p) /\ proc[p].effective.dim = META => CapOfStage(p))
    /\ [][\A sid \in DOMAIN sessions : sessions'[sid].gate.meta_cap_stage >= Stage(sid)]_vars

\* a META turn resolved without a cap, above both caps, in a session that has
\* passed through the two relaxations and whose earlier META turns were capped
C4_Unlocked ==
    \E p \in Procs :
        /\ Resolved(p) /\ proc[p].effective.dim = META
        /\ proc[p].capStage = 2 /\ proc[p].weighted > 650
        /\ Stage(proc[p].sid) = 2
        /\ \E i \in 1..Len(sessions[proc[p].sid].memory.attn_log) :
              /\ sessions[proc[p].sid].memory.attn_log[i].dim = META
              /\ sessions[proc[p].sid].memory.attn_log[i].turn < proc[p].turn

\* C8: the capacity bounds: the three stagnation buffers hold at most 12
\* entries, the oldest evicted first, attn_log at most 30, the bank at most 40
\* fragments, the summary and every fragment text at most 160 characters.
C8_Capacities ==
    /\ \A sid \in DOMAIN sessions :
          /\ Len(sessions[sid].gate.last_dims) <= 12
          /\ Len(sessions[sid].gate.last_focus) <= 12
          /\ Len(sessions[sid].gate.last_states) <= 12
          /\ Len(sessions[sid].memory.attn_log) <= 30
          /\ Len(Bank(sid)) <= 40
          /\ Len(sessions[sid].memory.summary) <= 160
          /\ \A i \in 1..Len(Bank(sid)) : Len(Bank(sid)[i].text) <= 160
    /\ \A p \in Procs :
          Resolved(p) =>
            /\ sessions[proc[p].sid].gate.last_states
                  = LastN(Append(proc[p].pre.gate.last_states, proc[p].state), 12)
            /\ Truthy(proc[p].effective.dim) =>
                  sessions[proc[p].sid].gate.last_dims
                    = LastN(Append(proc[p].pre.gate.last_dims, proc[p].effective.dim), 12)

\* the buffers and the attention log are full and have evicted, the summary
\* and a fragment text were cut at 160 characters
C8_FullAndCut ==
    \E sid \in DOMAIN sessions :
        /\ Len(sessions[sid].gate.last_dims) = 12
        /\ Len(sessions[sid].gate.last_focus) = 12
        /\ Len(sessions[sid].gate.last_states) = 12
        /\ sessions[sid].turn > 12
        /\ Len(sessions[sid].memory.attn_log) = 30
        /\ sessions[sid].memory.attn_log[1].turn > 1
        /\ Len(sessions[sid].memory.summary) = 160
        /\ \E i \in 1..Len(Bank(sid)) : Len(Bank(sid)[i].text) = 160

\* ------------------------------------------------------------------------
\* Properties of the exploration pulse, under SpecLong

\* the request of p has issued the exploration request
Explored(p) == \E i \in 1..Len(proc[p].requests) : proc[p].requests[i] = "explore"

\* the distinct values among the last 8 entries of a buffer
Last8(buffer) == Range(LastN(buffer, 8))

\* C11: an exploration request is issued only if, at the start of the turn,
\* the three buffers hold at least 8 entries, the variance of the last 8 states
\* is < 0.002, the last 8 dimensions have at most 1 distinct value, the last 8
\* focus strings at most 2, turn - last_pulse_turn >= 6, the most recent
\* dimension is not RISK and last_state < 0.6.
C11_PulseOnlyIfStagnant ==
    \A p \in Procs :
        Explored(p) =>
          LET g == proc[p].pre.gate
          IN  /\ Len(g.last_states) >= 8 /\ Len(g.last_dims) >= 8 /\ Len(g.last_focus) >= 8
              /\ variance(LastN(g.last_states, 8)) < 2000
              /\ Cardinality(Last8(g.last_dims)) <= 1
              /\ Cardinality(Last8(g.last_focus)) <= 2
              /\ proc[p].turn - g.last_pulse_turn >= 6
              /\ g.last_dims[Len(g.last_dims)] # RISK
              /\ g.last_state < 600

\* a second exploration request of a session, six turns or more after a pulse
\* that brought a second focus into the buffer
C11_PulseAfterCooldown ==
    \E p \in Procs :
        /\ proc[p].pc = "explore"
        /\ proc[p].pre.gate.last_pulse_turn > 0
        /\ Cardinality(Last8(proc[p].pre.gate.last_focus)) = 2

\* ------------------------------------------------------------------------
\* Properties of failing completion calls

\* the main request of p's turn has been issued
MainIssued(p) == \E i \in 1..Len(proc[p].requests) : proc[p].requests[i] = "main"

\* p's turn has answered 200 with the assistant's text
Answered(p) == proc[p].status = 200 /\ proc[p].assistantText # Null

\* C13: a failure of the exploration, arbitration or summary request does not
\* abort the turn: the main request is still issued and the turn answers, a
\* note is recorded, and the skipped feature leaves its state untouched.
C13_OptionalCallsFailOpen ==
    \A p \in Procs :
        /\ (proc[p].thrown \cap {"explore", "verify"} # {}) =>
              /\ MainIssued(p)
              /\ proc[p].pc \in {"main", "summary", "done"} \/ "main" \in proc[p].thrown
              /\ proc[p].pc = "done" => Answered(p)
              /\ "exploration pulse failed" \in proc[p].notes
              /\ proc[p].effective = proc[p].original
              /\ ~proc[p].triggered
              /\ sessions[proc[p].sid].gate.last_pulse_turn = proc[p].pre.gate.last_pulse_turn
        /\ ("summary" \in proc[p].thrown) =>
              /\ proc[p].pc = "done" /\ Answered(p)
              /\ "summary update failed" \in proc[p].notes
              /\ sessions[proc[p].sid].memory.summary = proc[p].pre.memory.summary
              /\ sessions[proc[p].sid].memory.summary_updated_turn
                    = proc[p].pre.memory.summary_updated_turn

\* a turn whose exploration request and whose summary request both threw,
\* answered, in a session that had a pulse before
C13_BothSkipped ==
    \E p \in Procs :
        /\ proc[p].pc = "done" /\ Answered(p)
        /\ proc[p].thrown = {"explore", "summary"}
        /\ proc[p].pre.gate.last_pulse_turn > 0

\* C14: the main completion call is the only one whose failure makes the turn
\* fail; a failure of any other call, the probe request included, is skipped
\* and the turn still answers.
C14_OnlyMainIsFatal ==
    \A p \in Procs : proc[p].pc = "failed" => proc[p].thrown = {"main"}

\* ------------------------------------------------------------------------
\* Properties of the governor, under SpecLong

ChangeTurn(sid) == sessions[sid].gate.meta_cap_last_change_turn

\* the number of META labels among the last 12 buffered after the step
MetaInWindow(sid) ==
    LET dims == LastN(sessions'[sid].gate.last_dims, 12)
    IN  Cardinality({i \in 1..Len(dims) : dims[i] = META})

\* C19: the stage changes on a turn only with at least 12 labels buffered and
\* at most 3 META labels among the last 12 when leaving stage 0, at most 2 when
\* leaving stage 1; every change sets meta_cap_last_change_turn to the current
\* turn, and nothing else changes it.
C19_ChangeOnlyOnLowMetaShare ==
    [][\A sid \in DOMAIN sessions :
         /\ sessions'[sid].gate.meta_cap_stage # Stage(sid) =>
               /\ Len(sessions'[sid].gate.last_dims) >= 12
               /\ Stage(sid) = 0 => MetaInWindow(sid) <= 3
               /\ Stage(sid) = 1 => MetaInWindow(sid) <= 2
               /\ sessions'[sid].gate.meta_cap_last_change_turn = sessions'[sid].turn
               /\ sessions'[sid].turn = sessions[sid].turn
         /\ sessions'[sid].gate.meta_cap_last_change_turn # ChangeTurn(sid) =>
               sessions'[sid].gate.meta_cap_stage # Stage(sid)]_vars

\* the number of META labels among the last 12 buffered
MetaBuffered(sid) ==
    LET dims == LastN(sessions[sid].gate.last_dims, 12)
    IN  Cardinality({i \in 1..Len(dims) : dims[i] = META})

\* stage 1 was held on turn 30, its interval over, by three META labels in the
\* window, in a session that had left stage 0 on turn 12
C19_HeldBackByMeta ==
    \E p \in Procs :
        /\ proc[p].pc = "done" /\ proc[p].turn = 30
        /\ Stage(proc[p].sid) = 1 /\ ChangeTurn(proc[p].sid) = 12
        /\ MetaBuffered(proc[p].sid) = 3

\* C20: the stage rises by at most one step per turn; stage 0 is never left
\* before turn 12; stage 1 is left only 18 turns or more after the turn that
\* left stage 0, so that stage 2 is never reached before turn 30.
C20_GovernanceTiming ==
    /\ [](\A sid \in DOMAIN sessions :
            /\ Stage(sid) >= 1 => sessions[sid].turn >= 12 /\ ChangeTurn(sid) >= 12
            /\ Stage(sid) = 2 => sessions[sid].turn >= 30 /\ ChangeTurn(sid) >= 30)
    /\ [](\A p \in Procs :
            proc[p].sid \in DOMAIN sessions /\ sessions[proc[p].sid].turn = proc[p].turn =>
                Stage(proc[p].sid) - proc[p].pre.gate.meta_cap_stage <= 1)
    /\ [][\A sid \in DOMAIN sessions :
            /\ sessions'[sid].gate.meta_cap_stage - Stage(sid) <= 1
            /\ sessions'[sid].turn = sessions[sid].turn + 1 =>
                  sessions'[sid].gate.meta_cap_stage = Stage(sid)
            /\ Stage(sid) = 1 /\ sessions'[sid].gate.meta_cap_stage = 2 =>
                  sessions'[sid].turn - ChangeTurn(sid) >= 18]_vars

\* stage 2 reached on turn 30, the earliest turn
C20_Stage2AtTurn30 ==
    \E sid \in DOMAIN sessions :
        Stage(sid) = 2 /\ ChangeTurn(sid) = 30 /\ sessions[sid].turn = 30

\* ------------------------------------------------------------------------
\* SpecLoop: one session whose probes repeat: a calm RISK probe on one focus,
\* or a calm GOAL probe on one focus, on two in alternation, or on three in
\* rotation.  The first turn chooses, the later turns go on.

LoopTurns == 12

LastFocus(gate) == IF Len(gate.last_focus) > 0 THEN gate.last_focus[Len(gate.last_focus)] ELSE Null

LoopProbe(dim, focus) == Probe(dim, focus, "", 2000, 1000)

\* what the probe of turn t may answer
LoopProbes(t, gate) ==
    IF t = 1 THEN {LoopProbe("RISK", "db"), LoopProbe("GOAL", "db"),
                   LoopProbe("GOAL", "api"), LoopProbe("GOAL", "x1")}
    ELSE IF LastDim(gate) = RISK THEN {LoopProbe("RISK", "db")}
    ELSE IF LastFocus(gate) = Chars("api") THEN {LoopProbe("GOAL", "ui")}
    ELSE IF LastFocus(gate) = Chars("ui") THEN {LoopProbe("GOAL", "api")}
    ELSE IF LastFocus(gate) = Chars("x1") THEN {LoopProbe("GOAL", "x2")}
    ELSE IF LastFocus(gate) = Chars("x2") THEN {LoopProbe("GOAL", "x3")}
    ELSE IF LastFocus(gate) = Chars("x3") THEN {LoopProbe("GOAL", "x1")}
    ELSE {LoopProbe("GOAL", "db")}

NextLoop ==
    \/ TurnsOf(Chars("s1")) < LoopTurns /\ Start(1, Chars("s1"), Chars("hello"))
    \/ /\ proc[1].pc = "probe"
       /\ \E r \in LoopProbes(proc[1].turn, sessions[proc[1].sid].gate), rnd \in RandDraws :
             ProbeResp(1, r, rnd)
    \/ \E rnd \in RandDraws : ExploreResp(1, Cands3, rnd)
    \/ \E rnd \in RandDraws : VerifyResp(1, Pick(1), rnd)
    \/ MainResp(1, Text("answer"))
    \/ SummaryResp(1, Text("a summary"))

SpecLoop == Init /\ [][NextLoop]_vars

\* the probe of p's turn has answered and the turn has issued its next request
PastProbe(p) == Len(proc[p].requests) >= 2

\* the buffers a turn starts from hold 8 turns of one dimension and of flat
\* state, and the cooldown is over
Repeating(p) ==
    LET g == proc[p].pre.gate
    IN  /\ Len(g.last_dims) >= 8 /\ Len(g.last_states) >= 8
        /\ Cardinality(Last8(g.last_dims)) = 1
        /\ variance(LastN(g.last_states, 8)) < 2000
        /\ proc[p].turn - g.last_pulse_turn >= 6

PairTurns == 4

SessionOf(p) == IF p = 1 THEN Chars("a") ELSE Chars("b")

\* what the probe of turn t answers
PairProbe(t) ==
    IF t = 1 THEN Probe("RISK", "db", "retry", 5000, 2000)
    ELSE IF t = 2 THEN Probe("GOAL", "api", "", 3000, NoNum)
    ELSE IF t = 3 THEN Probe("RISK", "DB", "", NoNum, NoNum)
    ELSE Probe("META", "self", "", 4000, 1000)

InitPair ==
    /\ sessions = << >>
    /\ proc = [p \in {1, 2} |-> IdleLocals]

NextPair ==
    \E p \in {1, 2} :
        \/ TurnsOf(SessionOf(p)) < PairTurns /\ Start(p, SessionOf(p), Chars("hello"))
        \/ /\ proc[p].pc = "probe"
           /\ \E rnd \in RandDraws : ProbeResp(p, PairProbe(proc[p].turn), rnd)
        \/ MainResp(p, Text("answer"))

SpecPair == InitPair /\ [][NextPair]_vars

\* a session but for its id
Owned(sess) == [turn |-> sess.turn, history |-> sess.history, gate |-> sess.gate,
                memory |-> sess.memory]

\* what a request returns
Result(p) == [status |-> proc[p].status, assistantText |-> proc[p].assistantText,
              state |-> proc[p].state, effective |-> proc[p].effective,
              score |-> proc[p].score, injected |-> proc[p].injected,
              max_output_tokens |-> proc[p].max_output_tokens,
              temperature |-> proc[p].temperature, notes |-> proc[p].notes]

\* p and q stand at the same point of the same turn of their sessions
Abreast(p, q) ==
    /\ proc[p].pc = proc[q].pc /\ proc[p].turn = proc[q].turn
    /\ proc[p].sid \in DOMAIN sessions /\ proc[q].sid \in DOMAIN sessions

\* C16: turns of different sessions are independent: a step of a turn of one
\* session changes nothing in any other session, and whatever the interleaving
\* a session and its results are what its own turns alone make them (the same
\* as those of the other session at the same point).
C16_SessionsIndependent ==
    /\ [](\A p, q \in Procs :
            Abreast(p, q) =>
                /\ Owned(sessions[proc[p].sid]) = Owned(sessions[proc[q].sid])
                /\ Result(p) = Result(q))
    /\ [](\A sid \in DOMAIN sessions : sessions[sid].id = sid)
    /\ [][\A p \in Procs :
            proc'[p] # proc[p] =>
                \A sid \in DOMAIN sessions :
                    sid # proc'[p].sid => sessions'[sid] = sessions[sid]]_vars

\* the two sessions abreast at the main call of their third turn, each with
\* fragments in its bank
C16_AbreastAfterOvertaking ==
    /\ Abreast(1, 2) /\ proc[1].pc = "main" /\ proc[1].turn = 3
    /\ proc[1].sid # proc[2].sid
    /\ Len(sessions[proc[1].sid].memory.fragments) >= 1

\* ------------------------------------------------------------------------
\* SpecBudget: the budgets alone, for every state from 0 to 1 in thousandths,
\* with and without a pulse, over an empty bank and over banks of one fragment
\* of usual and of very high salience.

BudgetBank(sal) ==
    << [ id |-> makeFragmentId(1, 7), key |-> Chars("db"), turn |-> 1, dim |-> Chars("GOAL"),
         focus |-> Chars("db"), text |-> Chars("(GOAL) db"), salience |-> sal,
         last_used_turn |-> 0 - 999 ] >>

BudgetBanks == { <<>>, BudgetBank(ONE \div 2), BudgetBank(SalienceMax) }

\* a turn of session s1 that has resolved its state
InitBudget ==
    \E state \in 0..ONE, triggered \in BOOLEAN, frags \in BudgetBanks :
        /\ sessions = (Chars("s1") :>
                         [NewSession(Chars("s1")) EXCEPT !.turn = 2, !.gate.last_state = state,
                                                         !.memory.fragments = frags])
        /\ proc = [p \in {1} |->
                     [IdleLocals EXCEPT !.pc = "probe", !.sid = Chars("s1"), !.turn = 2,
                                        !.state = state, !.triggered = triggered,
                                        !.resolved = TRUE]]

\* lines 526-554 applied to the resolved state
Budget(p) ==
    /\ proc[p].pc = "probe"
    /\ LET b == budgets(proc[p].state, sessions[proc[p].sid].memory.fragments, proc[p].triggered)
       IN  proc' = [proc EXCEPT ![p] = [@ EXCEPT
                      !.pc = "main",
                      !.ctx_keep_msgs = b.ctx_keep_msgs,
                      !.summary_chars = b.summary_chars,
                      !.attn_items = b.attn_items,
                      !.frag_items = b.frag_items,
                      !.summary_update_interval = b.summary_update_interval,
                      !.summary_update_max_tokens = b.summary_update_max_tokens,
                      !.max_output_tokens = b.max_output_tokens,
                      !.temperature = b.temperature,
                      !.notes = b.notes]]
    /\ UNCHANGED sessions

NextBudget == Budget(1)

SpecBudget == InitBudget /\ [][NextBudget]_vars

\* the budgets of p's turn have been computed
Budgeted(p) == proc[p].pc \in {"main", "summary", "done"} /\ proc[p].resolved

\* C18: for every state in [0, 1] each budget lies in its range: context
\* messages in [4, 18], summary chars in [0, 220], attention-log items in
\* [0, 10], fragment items in [0, 10], summary refresh interval in [1, 18],
\* summary refresh tokens in [20, 120], main response tokens in [60, 520],
\* temperature in [0.05, 0.70].
C18_BudgetsInRange ==
    \A p \in Procs :
        Budgeted(p) /\ proc[p].state \in 0..ONE =>
            /\ proc[p].ctx_keep_msgs \in 4..18
            /\ proc[p].summary_chars \in 0..220
            /\ proc[p].attn_items \in 0..10
            /\ proc[p].frag_items \in 0..10
            /\ proc[p].summary_update_interval \in 1..18
            /\ proc[p].summary_update_max_tokens \in 20..120
            /\ proc[p].max_output_tokens \in 60..520
            /\ proc[p].temperature \in 50..700

\* the budgets of state 1 over a very salient bank: the ends of the ranges
C18_AtFullState ==
    \E p \in Procs :
        /\ Budgeted(p) /\ proc[p].state = ONE
        /\ MaxOf(sessions[proc[p].sid].memory.fragments) > 900
        /\ proc[p].ctx_keep_msgs = 18 /\ proc[p].summary_chars = 220
        /\ proc[p].attn_items = 10 /\ proc[p].frag_items = 10
        /\ proc[p].summary_update_interval = 1
        /\ proc[p].max_output_tokens = 520 /\ proc[p].temperature = 700

\* the budgets of state 0 with a pulse: the other ends, the main response
\* tokens raised to the floor of a pulse
C18_AtZeroState ==
    \E p \in Procs :
        /\ Budgeted(p) /\ proc[p].state = 0 /\ proc[p].triggered
        /\ proc[p].ctx_keep_msgs = 4 /\ proc[p].summary_chars = 0
        /\ proc[p].attn_items = 0 /\ proc[p].summary_update_interval = 18
        /\ proc[p].max_output_tokens = 120 /\ proc[p].temperature = 50

\* ------------------------------------------------------------------------
\* SpecHyst: the dimension weight and hysteresisUpdate alone, as lines 450-454
\* call them, for previous states below, inside and above the band, every raw
\* value from 0 to 1, a turn on GOAL and a META turn at each stage of the cap.

HystPrevs == {0, 300, 480, 550, 620, ONE}

\* a turn of session s1 that has its raw state and its effective probe
InitHyst ==
    \E prev \in HystPrevs, raw \in 0..ONE, frame \in {<<"GOAL", 0>>, <<"META", 0>>,
                                                     <<"META", 1>>, <<"META", 2>>} :
        /\ sessions = (Chars("s1") :>
                         [NewSession(Chars("s1")) EXCEPT !.turn = 2, !.gate.last_state = prev,
                                                         !.gate.meta_cap_stage = frame[2]])
        /\ proc = [p \in {1} |->
                     [IdleLocals EXCEPT !.pc = "probe", !.sid = Chars("s1"), !.turn = 2,
                                        !.rawStateFromScore = raw,
                                        !.effective = [NoProbe EXCEPT !.dim = Chars(frame[1])]]]

\* lines 450-454
Hyst(p) ==
    /\ proc[p].pc = "probe" /\ ~proc[p].resolved
    /\ LET gate == sessions[proc[p].sid].gate
           dimWeighted == applyDimWeight(proc[p].rawStateFromScore, proc[p].effective.dim, gate)
           state == hysteresisUpdate(gate.last_state, dimWeighted.raw, HystUp, HystDown, Inertia)
       IN  /\ proc' = [proc EXCEPT ![p] =
                         [@ EXCEPT !.prev = gate.last_state, !.capStage = gate.meta_cap_stage,
                                   !.weighted = dimWeighted.raw, !.metaCap = dimWeighted.metaCap,
                                   !.state = state, !.resolved = TRUE]]
           /\ sessions' = [sessions EXCEPT ![proc[p].sid].gate.last_state = state]

NextHyst == Hyst(1)

SpecHyst == InitHyst /\ [][NextHyst]_vars

\* C21 as stated: for every weighted raw value in the closed interval
\* [0.48, 0.62] the resolved state equals the previous state.
C21_ClosedBandSticky ==
    \A p \in Procs :
        Resolved(p) /\ proc[p].weighted >= 480 /\ proc[p].weighted <= 620 =>
            proc[p].state = proc[p].prev

\* C21: the band is the open interval (0.48, 0.62): for a weighted raw value
\* strictly inside it the target is the previous state and the resolved state
\* equals it; for any other value, 0.48 and 0.62 included, the target is the
\* raw value.
C21_OpenBandSticky ==
    \A p \in Procs :
        Resolved(p) =>
            IF proc[p].weighted > 480 /\ proc[p].weighted < 620
            THEN proc[p].state = proc[p].prev
            ELSE proc[p].state = clamp01(RDiv(600 * proc[p].prev + 400 * proc[p].weighted, 1000))

\* a turn whose weighted raw value is 0.62 and whose state moved toward it
C21_MovedAtUpperEnd ==
    \E p \in Procs :
        /\ Resolved(p) /\ proc[p].weighted = 620 /\ proc[p].prev = 300
        /\ proc[p].state = 428

\* the turn resolved at p is a META turn that read stage 0 or 1
MetaCapped(p) == Resolved(p) /\ proc[p].effective.dim = META /\ proc[p].capStage \in {0, 1}

\* C35: on a turn whose effective dimension is META while the governor is at
\* stage 0 or 1 the resolved state never exceeds max(previous state, cap), the
\* cap being 0.55 or 0.65; at stage 0, the cap lying inside the hysteresis
\* band, a META turn never moves the state above 0.48 unless the previous
\* state was already above it, and then the state does not rise.
C35_MetaNeverAboveCap ==
    \A p \in Procs :
        MetaCapped(p) =>
            /\ proc[p].state <= Max(proc[p].prev, IF proc[p].capStage = 0 THEN 550 ELSE 650)
            /\ proc[p].capStage = 0 =>
                  IF proc[p].prev > 480 THEN proc[p].state <= proc[p].prev
                  ELSE proc[p].state <= 480

\* a META turn at stage 1 with a raw state of 1: capped at 0.65, above the
\* band, the state rose from 0.3 to 0.44
C35_RoseTowardCap ==
    \E p \in Procs :
        /\ MetaCapped(p) /\ proc[p].capStage = 1 /\ proc[p].rawStateFromScore = ONE
        /\ proc[p].weighted = 650 /\ proc[p].prev = 300 /\ proc[p].state = 440

\* ------------------------------------------------------------------------
\* SpecEma: the two baselines alone over a long run of turns whose probes have
\* the surprisal and the entropy of the baselines' means (2.0 and 1.0, as
\* createInitialGateState sets them).  Nothing but lines 335-337 and 344-346
\* writes S and H, so a turn is reduced to the turn counter and those lines.
\* The deviation d is 0 on every such turn and no squared deviation enters a
\* variance; that lets SpecEma hold its variances in units of 1e-9 (1.0 is
\* 10^9), fine enough for the floor of gating.ts.

EmaTurns == 300

\* gating.ts 6: 1e-8, in units of 1e-9
EPS == 10

\* gating.ts 25-31; the product is taken as in baselineUpdate
emaUpdate(stats, x, eta) ==
    LET mean == RDiv((ONE - eta) * stats.mean + eta * x, ONE)
        diff == x - mean
        a    == (ONE - eta) \div 20
        b    == eta \div 20
        c    == ONE \div 20
        dd   == diff * diff
        var_ == a * (stats.var \div c) + b * (dd \div c)
                + RDiv(a * (stats.var % c) + b * (dd % c), c)
    IN  [mean |-> mean, var |-> Max(var_, EPS)]

\* a fresh session s1
InitEma ==
    /\ sessions = (Chars("s1") :>
                     [NewSession(Chars("s1")) EXCEPT !.gate.S.var = 1000 * @,
                                                     !.gate.H.var = 1000 * @])
    /\ proc = [p \in {1} |-> [IdleLocals EXCEPT !.sid = Chars("s1")]]

\* lines 291 and 333-349 of a turn whose probe has the surprisal S and the
\* entropy H
Ema(p, S, H) ==
    LET sess == sessions[proc[p].sid]
    IN  /\ sess.turn < EmaTurns
        /\ sessions' = [sessions EXCEPT ![proc[p].sid] =
                          [sess EXCEPT !.turn = @ + 1,
                                       !.gate.S = IF S # NoNum THEN baselineUpdate(@, S) ELSE @,
                                       !.gate.H = IF H # NoNum THEN baselineUpdate(@, H) ELSE @]]
        /\ proc' = [proc EXCEPT ![p] = [@ EXCEPT !.pc = "main", !.turn = sess.turn + 1,
                                                 !.pre = sess, !.S = S, !.H = H]]

\* on the first turns the probe may come without top_logprobs
NextEma ==
    \E H \in {sessions[Chars("s1")].gate.H.mean} \cup
             (IF sessions[Chars("s1")].turn < 3 THEN {NoNum} ELSE {}) :
        Ema(1, sessions[Chars("s1")].gate.S.mean, H)

SpecEma == InitEma /\ [][NextEma]_vars

\* p's probe has answered and lines 314-359 have run
Measured(p) == proc[p].pc \in {"explore", "verify", "main", "summary", "done"}

\* C32: after any sequence of turns the variance of each running baseline is
\* at least the floor 1e-8: the baseline update of a turn equals emaUpdate,
\* floor included.
C32_VarianceFloor ==
    /\ \A sid \in DOMAIN sessions :
          sessions[sid].gate.S.var >= EPS /\ sessions[sid].gate.H.var >= EPS
    /\ \A p \in Procs :
          Measured(p) =>
            /\ proc[p].S # NoNum =>
                  sessions[proc[p].sid].gate.S = emaUpdate(proc[p].pre.gate.S, proc[p].S, Eta)
            /\ proc[p].H # NoNum =>
                  sessions[proc[p].sid].gate.H = emaUpdate(proc[p].pre.gate.H, proc[p].H, Eta)

\* ------------------------------------------------------------------------
\* Properties of the outcome of a pulse, under SpecLong

\* the pulse of p's turn succeeded (pulse.triggered)
Pulsed(p) == Resolved(p) /\ proc[p].triggered

\* the fields of the candidate the arbitration chose
Selected(p) == [dim |-> proc[p].cands[proc[p].picked].dim,
                focus |-> proc[p].cands[proc[p].picked].focus,
                next |-> proc[p].cands[proc[p].picked].next]

\* C22: a successful pulse sets last_pulse_turn to the current turn; an
\* abandoned or failed attempt, like a turn without attempt, leaves it as it
\* was; two turns of a session on which a pulse succeeds are at least 6 turns
\* apart.
C22_PulseCooldown ==
    /\ [](\A p \in Procs :
            Resolved(p) =>
                sessions[proc[p].sid].gate.last_pulse_turn =
                    IF proc[p].triggered THEN proc[p].turn
                    ELSE proc[p].pre.gate.last_pulse_turn)
    /\ [][\A sid \in DOMAIN sessions :
            sessions'[sid].gate.last_pulse_turn # sessions[sid].gate.last_pulse_turn =>
                /\ sessions'[sid].gate.last_pulse_turn = sessions'[sid].turn
                /\ sessions'[sid].gate.last_pulse_turn - sessions[sid].gate.last_pulse_turn >= 6]_vars

\* a second successful pulse of a session
C22_SecondPulse ==
    \E p \in Procs :
        /\ Pulsed(p) /\ proc[p].pre.gate.last_pulse_turn > 0
        /\ sessions[proc[p].sid].gate.last_pulse_turn = proc[p].turn

\* C23: when fewer than 2 candidates parse from the exploration response no
\* arbitration request is issued, pulse.triggered stays false and the original
\* probe is the effective probe of the turn; with 2 or 3 the arbitration
\* request is issued.
C23_AbandonedBelowTwo ==
    \A p \in Procs :
        Explored(p) /\ proc[p].pc # "explore" /\ "explore" \notin proc[p].thrown =>
            IF Len(proc[p].cands) < 2
            THEN /\ \A i \in 1..Len(proc[p].requests) : proc[p].requests[i] # "verify"
                 /\ Resolved(p) /\ ~proc[p].triggered
                 /\ proc[p].effective = proc[p].original
                 /\ proc[p].requests = <<"probe", "explore", "main">>
                        \/ proc[p].requests = <<"probe", "explore", "main", "summary">>
            ELSE /\ Len(proc[p].cands) <= 3
                 /\ proc[p].requests[3] = "verify"

\* a turn that went on with its original probe after a single candidate parsed
C23_OneCandidate ==
    \E p \in Procs :
        /\ Explored(p) /\ Len(proc[p].cands) = 1 /\ proc[p].pc = "main"
        /\ proc[p].effective = proc[p].original /\ proc[p].original.dim = Chars("GOAL")

\* C24: on a successful pulse the effective probe is one of the 2 or 3 parsed
\* candidates: the one numbered by the arbitration reply when it parses,
\* the last one when that number is larger than their count, candidate 1
\* when the reply does not parse.
C24_PickInRange ==
    \A p \in Procs :
        Pulsed(p) =>
            /\ Len(proc[p].cands) \in {2, 3}
            /\ proc[p].pickReply \in {NoNum, 1, 2, 3}
            /\ proc[p].picked =
                   IF proc[p].pickReply = NoNum THEN 1
                   ELSE Min(proc[p].pickReply, Len(proc[p].cands))
            /\ proc[p].effective = Selected(p)

\* the reply PICK: 3 over two candidates took the second
C24_PickBeyondCount ==
    \E p \in Procs :
        /\ Pulsed(p) /\ Len(proc[p].cands) = 2 /\ proc[p].pickReply = 3
        /\ proc[p].picked = 2 /\ proc[p].effective.dim = Chars("GOAL")

\* the probe a turn must use downstream
Due(p) == IF proc[p].triggered THEN Selected(p) ELSE proc[p].original

\* C25: the dimension weighting, the append to the stagnation buffers, the
\* attention-log entry and the key, text, dim and focus of the fragment of the
\* turn come from the chosen candidate on a turn whose pulse succeeded and
\* from the original probe on every other turn.
C25_EffectiveProbeDownstream ==
    \A p \in Procs :
        Resolved(p) =>
            LET e    == Due(p)
                pre  == proc[p].pre
                sess == sessions[proc[p].sid]
            IN  /\ proc[p].effective = e
                /\ proc[p].weighted = applyDimWeight(proc[p].rawStateFromScore, e.dim, pre.gate).raw
                /\ sess.gate.last_dims =
                       ShiftTo(IF Truthy(e.dim) THEN Append(pre.gate.last_dims, e.dim)
                               ELSE pre.gate.last_dims, 12)
                /\ sess.gate.last_focus =
                       ShiftTo(IF Truthy(e.focus) THEN Append(pre.gate.last_focus, e.focus)
                               ELSE pre.gate.last_focus, 12)
                /\ sess.memory.attn_log =
                       IF Truthy(e.dim) /\ Truthy(e.focus)
                       THEN ShiftTo(Append(pre.memory.attn_log,
                                           [turn |-> proc[p].turn, dim |-> e.dim,
                                            focus |-> e.focus, next |-> e.next]), 30)
                       ELSE pre.memory.attn_log
                /\ \A i \in 1..Len(sess.memory.fragments) :
                       sess.memory.fragments[i].turn = proc[p].turn =>
                           /\ sess.memory.fragments[i].key = makeFragmentKey(e.dim, e.focus, e.next)
                           /\ sess.memory.fragments[i].text = fragmentText(e.dim, e.focus, e.next)
                           /\ sess.memory.fragments[i].dim = e.dim
                           /\ sess.memory.fragments[i].focus = e.focus

\* a turn whose pulse chose a candidate unlike the original probe, with the
\* fragment of the turn in the bank
C25_CandidateUsed ==
    \E p \in Procs :
        /\ Pulsed(p)
        /\ proc[p].effective.dim # proc[p].original.dim
        /\ proc[p].effective.focus # proc[p].original.focus
        /\ LastDim(sessions[proc[p].sid].gate) = proc[p].effective.dim
        /\ \E i \in 1..Len(sessions[proc[p].sid].memory.fragments) :
               /\ sessions[proc[p].sid].memory.fragments[i].turn = proc[p].turn
               /\ sessions[proc[p].sid].memory.fragments[i].dim = proc[p].effective.dim

\* C26: the dimension adopted by a successful pulse differs from the
\* repeating dimension, the label appended to last_dims is that dimension, and
\* the buffers the turn leaves are not stagnant.
C26_PulseBreaksRepetition ==
    \A p \in Procs :
        Pulsed(p) =>
            /\ proc[p].effective.dim # LastDim(proc[p].pre.gate)
            /\ LastDim(sessions[proc[p].sid].gate) = proc[p].effective.dim
            /\ ~shouldExplorationPulse(sessions[proc[p].sid].gate)

\* C30: on a turn whose pulse succeeded the main request's max_output_tokens
\* is at least 120 (the larger of 120 and round(60 + 460 state)); on every
\* other turn it is round(60 + 460 state), with no floor.
C30_PulseFloor ==
    \A p \in Procs :
        Budgeted(p) =>
            IF proc[p].triggered
            THEN /\ proc[p].max_output_tokens >= 120
                 /\ proc[p].max_output_tokens = Max(120, RDiv(60 * ONE + 460 * proc[p].state, ONE))
            ELSE proc[p].max_output_tokens = RDiv(60 * ONE + 460 * proc[p].state, ONE)

\* a turn whose pulse succeeded at a state that maps below the floor
C30_FloorRaised ==
    \E p \in Procs :
        /\ Budgeted(p) /\ proc[p].triggered /\ proc[p].max_output_tokens = 120
        /\ RDiv(60 * ONE + 460 * proc[p].state, ONE) = 119
        /\ "pulse floor" \in proc[p].notes

\* ------------------------------------------------------------------------
\* Properties of the fragment operations of a turn

\* the bank of p's session as the turn found it, after the decay of line 488
Decayed(p) == decayFragments(proc[p].pre.memory.fragments, proc[p].state)

\* the fragment of p's turn as lines 504-516 hand it to upsertFragment
Incoming(p) ==
    [ key |-> makeFragmentKey(proc[p].effective.dim, proc[p].effective.focus,
                              proc[p].effective.next),
      turn |-> proc[p].turn, dim |-> proc[p].effective.dim, focus |-> proc[p].effective.focus,
      text |-> fragmentText(proc[p].effective.dim, proc[p].effective.focus,
                            proc[p].effective.next),
      salience |-> clamp(0, 1200, 250 + Mul(550, proc[p].state) + dimBonus(proc[p].effective.dim)) ]

\* the bank after the upsert of p's turn
Upserted(p) == upsertFragment(Decayed(p), Incoming(p), proc[p].turn, 7).frags

\* the upsert of p's turn has met a fragment with the key of the incoming one
Merging(p) ==
    /\ Resolved(p) /\ Incoming(p).text # <<>>
    /\ \E i \in 1..Len(Decayed(p)) : Decayed(p)[i].key = Incoming(p).key

\* C27: a merging upsert sets the salience of the fragment with the incoming
\* key to clamp(0, 1.2, max(old, new) + 0.08), at least max(old, new),
\* overwrites its text, dim, focus and turn with the incoming ones, and leaves
\* its id, key and last_used_turn, the number of fragments and every other
\* fragment as they were.
C27_MergeReinforces ==
    \A p \in Procs :
        Merging(p) =>
            LET old == Decayed(p)
                new == Upserted(p)
                inc == Incoming(p)
            IN  /\ proc[p].fragAdd = "merged"
                /\ Len(new) = Len(old)
                /\ \A i \in 1..Len(old) :
                       IF old[i].key = inc.key
                       THEN /\ new[i].salience =
                                  Min(1200, Max(old[i].salience, inc.salience) + 80)
                            /\ new[i].salience >= old[i].salience
                            /\ new[i].salience >= inc.salience
                            /\ new[i].text = inc.text /\ new[i].dim = inc.dim
                            /\ new[i].focus = inc.focus /\ new[i].turn = inc.turn
                            /\ new[i].id = old[i].id /\ new[i].key = old[i].key
                            /\ new[i].last_used_turn = old[i].last_used_turn
                            /\ \E j \in 1..Len(Bank(proc[p].sid)) :
                                   /\ Bank(proc[p].sid)[j].id = old[i].id
                                   /\ Bank(proc[p].sid)[j].text = inc.text
                                   /\ Bank(proc[p].sid)[j].turn = inc.turn
                                   /\ Bank(proc[p].sid)[j].salience >= new[i].salience
                       ELSE new[i] = old[i]

\* a merge that changed the text of a fragment injected before, beside
\* another fragment
C27_MergedOverOther ==
    \E p \in Procs :
        /\ Merging(p) /\ Len(Decayed(p)) >= 2
        /\ \E i \in 1..Len(Decayed(p)) :
               /\ Decayed(p)[i].key = Incoming(p).key
               /\ Decayed(p)[i].text # Incoming(p).text
               /\ Decayed(p)[i].last_used_turn > 0

\* the bank after the prune of p's turn (line 521)
PrunedBank(p) ==
    pruneFragments(IF Incoming(p).text # <<>> THEN Upserted(p) ELSE Decayed(p), proc[p].turn, 40)

\* the number of fragments selected on p's turn
Taken(p) == Min(Max(proc[p].frag_items, 0), Len(PrunedBank(p)))

\* C29: rehearsal touches exactly the fragments selected for injection, the
\* min(K, n) highest-salience fragments of the pruned bank: each gets salience
\* min(1.2, salience + 0.05) and last_used_turn the current turn; every other
\* fragment, and with K = 0 the whole bank, stays as the prune left it.
C29_RehearsalTouchesSelected ==
    \A p \in Procs :
        Resolved(p) =>
            LET b     == PrunedBank(p)
                after == Bank(proc[p].sid)
                k     == Taken(p)
            IN  /\ Len(after) = Len(b)
                /\ Cardinality(proc[p].injected) = k
                /\ \E top \in SUBSET (1..Len(b)) :
                       /\ Cardinality(top) = k
                       /\ proc[p].injected = {b[i].id : i \in top}
                       /\ \A i \in top, j \in (1..Len(b)) \ top :
                              b[i].salience >= b[j].salience
                       /\ \A i \in 1..Len(b) :
                              IF i \in top
                              THEN after[i] = [b[i] EXCEPT
                                                 !.salience = Min(1200, b[i].salience + 50),
                                                 !.last_used_turn = proc[p].turn]
                              ELSE after[i] = b[i]

\* a turn that injected some fragments of its bank and left others, one of
\* them injected on an earlier turn
C29_SomeLeftOut ==
    \E p \in Procs :
        /\ Resolved(p) /\ Taken(p) >= 1 /\ Taken(p) < Len(PrunedBank(p))
        /\ \E i \in 1..Len(Bank(proc[p].sid)) :
               /\ Bank(proc[p].sid)[i].id \notin proc[p].injected
               /\ Bank(proc[p].sid)[i].last_used_turn > 0
               /\ Bank(proc[p].sid)[i].last_used_turn < proc[p].turn

\* salience x after the rehearsal of p's turn, for fragment f
Rehearsed(p, f, x) == IF f.id \in proc[p].injected THEN Min(1200, x + 50) ELSE x

\* salience x after the decay of p's turn
DecayedOnce(p, x) == clamp(0, 1200, Mul(x, salienceDecayFactor(proc[p].state)))

\* the fragment of the bank p's turn started from that has the id of f
Before(p, f) ==
    LET old == proc[p].pre.memory.fragments
    IN  old[CHOOSE i \in 1..Len(old) : old[i].id = f.id]

\* C28: the fragment operations of a turn run in the order decay, upsert,
\* prune, select, rehearse, each once: every fragment the turn found is decayed
\* once, and before the upsert, so that the incoming salience is not decayed;
\* the prune follows the upsert, and runs also when nothing was upserted; the
\* rehearsal follows the prune.
C28_FragmentOrder ==
    \A p \in Procs :
        Resolved(p) =>
            LET old   == proc[p].pre.memory.fragments
                after == Bank(proc[p].sid)
                inc   == Incoming(p)
                fresh == inc.text # <<>>
            IN  /\ \A i \in 1..Len(after) :
                       LET f == after[i]
                       IN  IF f.id \in IdsOf(old)
                           THEN IF fresh /\ f.key = inc.key
                                THEN f.salience =
                                       Rehearsed(p, f,
                                          Min(1200, Max(DecayedOnce(p, Before(p, f).salience),
                                                        inc.salience) + 80))
                                ELSE f.salience =
                                       Rehearsed(p, f, DecayedOnce(p, Before(p, f).salience))
                           ELSE /\ fresh /\ f.key = inc.key /\ f.turn = proc[p].turn
                                /\ f.salience = Rehearsed(p, f, inc.salience)
                /\ \A i \in 1..Len(after) :
                       /\ ~(after[i].salience < 60 /\ proc[p].turn - after[i].turn > 8)
                       /\ i < Len(after) => after[i].salience >= after[i + 1].salience
                       /\ after[i].last_used_turn = proc[p].turn <=>
                              after[i].id \in proc[p].injected
                /\ Len(after) <= 40
                /\ proc[p].injected \subseteq IdsOf(after)
                /\ \A i \in 1..Len(old) :
                       old[i].id \notin IdsOf(after) =>
                           \/ DecayedOnce(p, old[i].salience) < 60 /\ proc[p].turn - old[i].turn > 8
                           \/ Len(after) = 40
                /\ (proc[p].fragAdd = "none") <=> ~fresh

\* a turn that upserted nothing, whose prune dropped a fragment and whose
\* rehearsal followed
C28_PrunedWithoutUpsert ==
    \E p \in Procs :
        /\ Resolved(p) /\ proc[p].fragAdd = "none"
        /\ Len(Bank(proc[p].sid)) < Len(proc[p].pre.memory.fragments)
        /\ proc[p].injected # {}

\* ------------------------------------------------------------------------
\* Properties of the stagnation buffers, under SpecLong

\* C33 as stated: every turn that resolves a state appends exactly one entry
\* to each of last_dims, last_focus and last_states, so the three buffers have
\* the same length.
C33_BuffersAligned ==
    \A sid \in DOMAIN sessions :
        /\ Len(sessions[sid].gate.last_dims) = Len(sessions[sid].gate.last_states)
        /\ Len(sessions[sid].gate.last_focus) = Len(sessions[sid].gate.last_states)

\* C33: every turn that resolves a state appends the new state to last_states;
\* it appends the effective dimension to last_dims only if the effective probe
\* has one, and the effective focus to last_focus only if it has one; so
\* last_dims and last_focus are never longer than last_states, and are shorter
\* after a turn without a dimension or a focus until the capacity evens them.
C33_AppendsWhatIsPresent ==
    /\ \A sid \in DOMAIN sessions :
          /\ Len(sessions[sid].gate.last_dims) <= Len(sessions[sid].gate.last_states)
          /\ Len(sessions[sid].gate.last_focus) <= Len(sessions[sid].gate.last_states)
    /\ \A p \in Procs :
          Resolved(p) =>
            LET was == proc[p].pre.gate
                now == sessions[proc[p].sid].gate
                e == proc[p].effective
            IN  /\ now.last_states = LastN(Append(was.last_states, proc[p].state), 12)
                /\ now.last_dims = IF e.dim # Null /\ e.dim # <<>>
                                   THEN LastN(Append(was.last_dims, e.dim), 12)
                                   ELSE was.last_dims
                /\ now.last_focus = IF e.focus # Null /\ e.focus # <<>>
                                    THEN LastN(Append(was.last_focus, e.focus), 12)
                                    ELSE was.last_focus

\* a turn whose effective probe had a focus and no dimension: the focus and
\* the state were buffered, the labels are as before and fewer than the states
C33_FocusWithoutDim ==
    \E p \in Procs :
        /\ Resolved(p) /\ proc[p].effective.dim = Null /\ proc[p].effective.focus # Null
        /\ sessions[proc[p].sid].gate.last_dims = proc[p].pre.gate.last_dims
        /\ Len(sessions[proc[p].sid].gate.last_dims)
              < Len(sessions[proc[p].sid].gate.last_states)
        /\ Len(sessions[proc[p].sid].gate.last_focus)
              = Len(sessions[proc[p].sid].gate.last_states)

\* ------------------------------------------------------------------------
\* Properties of the order of the completion requests, under SpecLong

RequestOrder == <<"probe", "explore", "verify", "main", "summary">>

Rank(r) == CHOOSE i \in 1..Len(RequestOrder) : RequestOrder[i] = r

\* C34: within one turn the completion requests are issued in the order probe,
\* exploration, arbitration (only after an exploration response with at least
\* 2 parsed candidates), main, summary update (only after the main response),
\* each at most once; no request is issued again after failing or returning
\* unusable output.
C34_RequestOrder ==
    /\ [](\A p \in Procs :
            LET q == proc[p].requests
            IN  /\ \A i, j \in 1..Len(q) : i < j => Rank(q[i]) < Rank(q[j])
                /\ InFlight(p) => q # <<>> /\ q[1] = "probe" /\ q[Len(q)] = proc[p].pc
                /\ "verify" \in Range(q) =>
                      /\ "explore" \in Range(q) /\ "explore" \notin proc[p].thrown
                      /\ Len(proc[p].cands) >= 2
                /\ "summary" \in Range(q) =>
                      "main" \in Range(q) /\ proc[p].assistantText # Null
                /\ proc[p].thrown \subseteq Range(q))
    /\ [][\A p \in Procs :
            \/ proc'[p].requests = proc[p].requests
            \/ \E r \in Range(RequestOrder) : proc'[p].requests = Append(proc[p].requests, r)
            \/ proc[p].pc \in Resting /\ proc'[p].requests \in {<<>>, <<"probe">>}]_vars

\* a turn that issued all five requests, none of which threw, and answered
C34_AllFive ==
    \E p \in Procs :
        /\ proc[p].pc = "done" /\ Answered(p)
        /\ proc[p].requests = RequestOrder
        /\ proc[p].thrown = {}

\* ------------------------------------------------------------------------
\* Properties of the summary refresh, under SpecLong

SummaryTurn(sid) == sessions[sid].memory.summary_updated_turn

\* C36: the stored summary and summary_updated_turn change on a turn only if
\* turn - summary_updated_turn >= the turn's refresh interval and the summary
\* request returned non-empty text; summary_updated_turn is then set to the
\* current turn; with turns that do not overlap it never decreases and never
\* exceeds the turn counter.
C36_SummaryRefresh ==
    /\ [](\A sid \in DOMAIN sessions : SummaryTurn(sid) <= sessions[sid].turn)
    /\ [][\A sid \in DOMAIN sessions :
            /\ sessions'[sid].memory.summary_updated_turn >= SummaryTurn(sid)
            /\ sessions'[sid].memory.summary # sessions[sid].memory.summary
                  \/ sessions'[sid].memory.summary_updated_turn # SummaryTurn(sid)
               => \E p \in Procs :
                     /\ proc[p].sid = sid /\ proc[p].pc = "summary" /\ proc'[p].pc = "done"
                     /\ proc[p].turn - SummaryTurn(sid) >= proc[p].summary_update_interval
                     /\ "summary" \notin proc'[p].thrown
                     /\ trim(proc'[p].summaryReply) # <<>>
                     /\ sessions'[sid].memory.summary = oneLineSummary(proc'[p].summaryReply)
                     /\ sessions'[sid].memory.summary_updated_turn = proc[p].turn]_vars

\* a turn that refreshed the summary a second time, after a turn whose summary
\* request was due and left the summary as it was
C36_RefreshedAgain ==
    \E p \in Procs :
        /\ proc[p].pc = "done" /\ "summary" \in Range(proc[p].requests)
        /\ SummaryTurn(proc[p].sid) = proc[p].turn
        /\ proc[p].pre.memory.summary_updated_turn > 0
        /\ proc[p].pre.memory.summary_updated_turn < proc[p].turn - 1

\* ------------------------------------------------------------------------
\* SpecOverlap: one session whose first turns come one at a time and whose
\* later turns may overlap: a second request arrives while the first is
\* suspended at a completion call, and either may resume first.  The probes
\* are calm and, from turn 4 on, on one frame, so that the turns that overlap
\* include a pulse, the first relaxation of the governor and the eviction from
\* the buffers.

OverlapTurns == 14
OverlapFrom == 11

NextOverlap ==
    \E p \in {1, 2} :
        \/ /\ TurnsOf(Chars("s1")) < OverlapTurns
           /\ p = 1 \/ TurnsOf(Chars("s1")) + 1 >= OverlapFrom
           /\ Start(p, Chars("s1"), Chars("hello"))
        \/ \E rnd \in RandDraws :
              ProbeResp(p, IF proc[p].turn = 3 THEN MetaCalm ELSE GoalCalm, rnd)
        \/ \E rnd \in RandDraws : ExploreResp(p, Cands3, rnd)
        \/ \E rnd \in RandDraws : VerifyResp(p, Pick(2), rnd)
        \/ MainResp(p, Text("answer"))
        \/ SummaryResp(p, Text("a summary"))

SpecOverlap == InitRace /\ [][NextOverlap]_vars

\* C37: when turns of the same session overlap these hold at every suspend
\* point under every interleaving: fragment keys are unique, the bank holds
\* at most 40 fragments, every salience is in [0, 1.2], each stagnation buffer
\* holds at most 12 entries, meta_cap_stage never decreases, and overlapping
\* turns have distinct turn numbers.
C37_InvariantsUnderOverlap ==
    /\ [](\A sid \in DOMAIN sessions :
            /\ \A i, j \in 1..Len(Bank(sid)) :
                  i # j => Bank(sid)[i].key # Bank(sid)[j].key
            /\ Len(Bank(sid)) <= MaxKeep
            /\ \A i \in 1..Len(Bank(sid)) :
                  Bank(sid)[i].salience >= 0 /\ Bank(sid)[i].salience <= SalienceMax
            /\ Len(sessions[sid].gate.last_dims) <= StagnationMaxLen
            /\ Len(sessions[sid].gate.last_focus) <= StagnationMaxLen
            /\ Len(sessions[sid].gate.last_states) <= StagnationMaxLen)
    /\ [](\A p, q \in Procs :
            p # q /\ InFlight(p) /\ InFlight(q) /\ proc[p].sid = proc[q].sid
               => proc[p].turn # proc[q].turn)
    /\ [][\A sid \in DOMAIN sessions : sessions'[sid].gate.meta_cap_stage >= Stage(sid)]_vars

\* a turn suspended at its exploration or arbitration request while a later
\* turn of the session has resolved its state and is suspended at its main
\* request, with the buffers full and the governor relaxed
C37_OvertakenInPulse ==
    \E p, q \in Procs :
        /\ proc[p].sid = proc[q].sid /\ proc[p].turn < proc[q].turn
        /\ proc[p].pc \in {"explore", "verify"}
        /\ proc[q].pc = "main"
        /\ Len(sessions[proc[p].sid].gate.last_states) = StagnationMaxLen
        /\ Stage(proc[p].sid) = 1

\* ------------------------------------------------------------------------
\* Properties of the baselines, under Spec

\* the baseline stats after one update by the signal x, from the baseline was:
\* the mean moved by 0.06 of the way to x, the variance by 0.06 of the way to
\* the squared distance of x from the new mean
UpdatedOnce(stats, was, x) ==
    /\ stats.mean = RDiv(940 * was.mean + 60 * x, 1000)
    /\ stats.var = baselineUpdate(was, x).var

\* C31: a signal's baseline changes on a turn only if the signal is available
\* on that turn (without surprisal S.mean and S.var are unchanged, without
\* entropy H.mean and H.var are unchanged); the z-score of an available signal
\* is computed from the baseline as it was before the turn's update, and the
\* update is applied exactly once.
C31_BaselineOnlyWhenAvailable ==
    \A p \in Procs :
        Measured(p) =>
            LET was == proc[p].pre.gate
                now == sessions[proc[p].sid].gate
            IN  /\ IF proc[p].S = NoNum
                   THEN now.S = was.S
                   ELSE /\ UpdatedOnce(now.S, was.S, proc[p].S)
                        /\ proc[p].zS = RDiv((proc[p].S - was.S.mean) * ONE,
                                             Max(1, ISqrt(was.S.var)))
                /\ IF proc[p].H = NoNum
                   THEN now.H = was.H
                   ELSE /\ UpdatedOnce(now.H, was.H, proc[p].H)
                        /\ proc[p].zH = RDiv((proc[p].H - was.H.mean) * ONE,
                                             Max(1, ISqrt(was.H.var)))

\* a turn after the first with surprisal and without entropy: the surprisal
\* baseline moved, the entropy baseline is the one of an earlier update
C31_SurprisalWithoutEntropy ==
    \E p \in Procs :
        /\ Measured(p) /\ proc[p].turn > 1
        /\ proc[p].S # NoNum /\ proc[p].H = NoNum
        /\ sessions[proc[p].sid].gate.S.mean # proc[p].pre.gate.S.mean
        /\ sessions[proc[p].sid].gate.H = proc[p].pre.gate.H
        /\ proc[p].pre.gate.H # createInitialGateState.H

\* ------------------------------------------------------------------------
\* Properties of the request's arrival, under Spec

\* p's request has just been answered 400
Rejects(p) == proc'[p].pc = "rejected" /\ proc[p].pc \in Resting

\* p's request has just passed validation and taken its session
Begins(p) == proc'[p].pc = "probe" /\ proc[p].pc \in Resting

\* C15: a request with a missing sessionId or an empty or whitespace-only
\* userText is rejected before any state mutation: no session is created for
\* it and no existing session changes.
C15_RejectedBeforeMutation ==
    /\ [](Null \notin DOMAIN sessions)
    /\ [][\A p \in Procs : Rejects(p) => sessions' = sessions]_vars

\* a request was rejected while a session with turns behind it exists
C15_RejectedWithSession ==
    \E p \in Procs :
        /\ proc[p].pc = "rejected" /\ proc[p].status = 400
        /\ \E sid \in DOMAIN sessions : sessions[sid].turn >= 2 /\ Len(sessions[sid].history) >= 3

\* what a session is when it is made
Fresh(sess) ==
    /\ sess.turn = 0 /\ sess.history = <<>>
    /\ sess.gate.last_state = 300 /\ sess.gate.meta_cap_stage = 0
    /\ sess.gate.last_dims = <<>> /\ sess.gate.last_focus = <<>> /\ sess.gate.last_states = <<>>
    /\ sess.memory.summary = <<>> /\ sess.memory.attn_log = <<>> /\ sess.memory.fragments = <<>>

\* C17: getSession is get-or-create: the first call for an id gives a session
\* with turn 0, last_state 0.3, stage 0, empty buffers, history and memory;
\* every later call for the id gives the session as earlier turns left it.
C17_GetOrCreate ==
    [][\A p \in Procs :
         Begins(p) =>
           IF proc'[p].sid \in DOMAIN sessions
           THEN proc'[p].pre = sessions[proc'[p].sid]
           ELSE Fresh(proc'[p].pre) /\ proc'[p].pre.id = proc'[p].sid]_vars

\* a later call for an id returned a session whose state earlier turns moved
C17_ReturnedUsed ==
    \E p \in Procs :
        /\ proc[p].pc = "probe"
        /\ proc[p].pre.turn >= 1
        /\ proc[p].pre.gate.last_state # 300
        /\ proc[p].pre.memory.fragments # <<>>

====
